---- MODULE Spec2Model ----
(***************************************************************************)
(* A model of CanvasUIMark (canvasUImark.js): the coordinator that owns    *)
(* the control list, the focus index, the modal stack and the toast list,  *)
(* and routes key, click and controller-button events.                     *)
(***************************************************************************)
EXTENDS Integers, Sequences, FiniteSets, TLC

(***************************************************************************)
(* Bounds of the model.                                                    *)
(***************************************************************************)
\* Control objects the application creates (ids 1..MaxControls).
MaxControls == 3
\* Modals open at the same time.
MaxModals == 2
\* Toasts the application shows (ids 1..MaxToasts).
MaxToasts == 2
\* The longest toast duration the application asks for.
MaxDuration == 2
\* The host's clock stops here.
MaxTime == 4
\* requestAnimationFrame callbacks armed at the same time.
MaxLoops == 2
\* Items of a Menu or a Radio.
MaxItems == 3
\* The largest min, max and starting value of a Slider, and its largest step.
MaxSliderValue == 4
MaxStep == 2
\* The longest text typed into a TextInput.
MaxText == 3

(***************************************************************************)
(* Program constants.  One unit of time is 100 ms.                         *)
(***************************************************************************)
\* Button.pressedDuration: 200 ms.
pressedDuration == 2

\* Modal.buttonHeight, buttonWidth, buttonSpacing and the margin below the
\* button row.
buttonHeight == 50
buttonWidth == 150
buttonSpacing == 20
buttonMargin == 20

\* The canvas (the size the documentation recommends) and the rectangle it
\* is displayed in: the page shows it at half size, at the origin.
CanvasWidth == 1280
CanvasHeight == 720
RectWidth == 640
RectHeight == 360
RectLeft == 0
RectTop == 0

\* Control.options.padding, and the item height the application gives its
\* Menus and Radios.
padding == 10
itemHeight == 50

\* TextInput.update: the cursor blinks every 500 ms.
cursorBlinkPeriod == 5

\* showModal's options.width / options.height as the application gives them.
OptWidth == 600
OptHeight == 200

\* JavaScript's %: the sign of the result is the sign of the dividend.
JsRem(a, n) == IF a >= 0 THEN a % n ELSE 0 - ((0 - a) % n)

Min(a, b) == IF a <= b THEN a ELSE b
Max(a, b) == IF a >= b THEN a ELSE b

Null == "null"

VARIABLES
    controls,     \* this.controls: sequence of control ids
    focusIndex,   \* this.focusIndex
    modals,       \* this.modals: sequence of modal records, last = topmost
    toasts,       \* this.toasts: sequence of toast ids
    keys,         \* this.keys: the set of keys k with keys[k] = true
    onEscape,     \* this.onEscape: "null" or "cb"
    ctl,          \* the controls' own fields, by control id
    timers,       \* pending setTimeout callbacks: the set of [id, due]
    now,          \* the host's clock
    armed,        \* ids of the requestAnimationFrame callbacks still armed
    animationFrameId, \* this.animationFrameId: an id, or 0 for null
    lastFrameTime,    \* this.lastFrameTime
    born,         \* the toasts shown so far: the set of [id, at, duration]
    pad,          \* navigator.getGamepads(): <<>> when no controller is
                  \* connected, else <<the set of its pressed button indexes>>
    lastGamepadButtons, \* this.lastGamepadButtons: the indexes that hold true
    mouse,        \* this.mouse: pointer position on the canvas and the mask
                  \* of the pointer buttons held
    throws,       \* whether the callbacks the application supplied throw
    ev,           \* the event or call handled last: its kind and, for a
                  \* click, its canvas position
    calls         \* the handlers and callbacks that dispatch invoked, in order

vars == <<controls, focusIndex, modals, toasts, keys, onEscape, ctl, timers,
          now, armed, animationFrameId, lastFrameTime, born, pad,
          lastGamepadButtons, mouse, throws, ev, calls>>


(***************************************************************************)
(* Controls.  The application creates MaxControls control objects; the     *)
(* kinds and rectangles repeat with period 3: a Button, a Toggle that      *)
(* overlaps it, a Panel laid over both.  It also creates one Slider, and a *)
(* Menu and a Radio of each item count 1..MaxItems, to the right of them.  *)
(***************************************************************************)
ControlIds == 1..MaxControls

SliderId == MaxControls + 1
MenuIds == (MaxControls + 2)..(MaxControls + 1 + MaxItems)
RadioIds == (MaxControls + 2 + MaxItems)..(MaxControls + 1 + 2 * MaxItems)
WidgetIds == {SliderId} \cup MenuIds \cup RadioIds
TextId == MaxControls + 2 + 2 * MaxItems
AllIds == ControlIds \cup WidgetIds \cup {TextId}

Kind(c) ==
    CASE c = SliderId  -> "Slider"
      [] c \in MenuIds  -> "Menu"
      [] c \in RadioIds -> "Radio"
      [] c = TextId     -> "TextInput"
      [] c % 3 = 1 -> "Button"
      [] c % 3 = 2 -> "Toggle"
      [] OTHER     -> "Panel"

\* items.length of a Menu, options.length of a Radio.
ItemCount(c) ==
    IF c \in MenuIds THEN c - (MaxControls + 1)
    ELSE c - (MaxControls + 1 + MaxItems)

\* Control.constructor: x, y, width, height.  Menu.constructor and
\* Radio.constructor compute the height from the item count.
Rect(c) ==
    CASE Kind(c) = "Panel"  ->
           [x |-> 50, y |-> 50, width |-> 600, height |-> 300]
      [] Kind(c) = "Slider" ->
           [x |-> 700, y |-> 100, width |-> 220, height |-> 40]
      [] Kind(c) = "Menu"   ->
           [x |-> 700, y |-> 200, width |-> 200,
            height |-> ItemCount(c) * itemHeight]
      [] Kind(c) = "Radio"  ->
           [x |-> 1000, y |-> 200, width |-> 200,
            height |-> itemHeight * ItemCount(c)]
      [] Kind(c) = "TextInput" ->
           [x |-> 700, y |-> 500, width |-> 300, height |-> 40]
      [] OTHER ->
           [x |-> 100 * c, y |-> 100 + 20 * (c - 1), width |-> 200, height |-> 50]

\* Control.containsPoint, and Panel's override.
BaseContainsPoint(c, x, y) ==
    /\ x >= Rect(c).x /\ x <= Rect(c).x + Rect(c).width
    /\ y >= Rect(c).y /\ y <= Rect(c).y + Rect(c).height

containsPoint(c, x, y) ==
    IF Kind(c) = "Panel" THEN FALSE ELSE BaseContainsPoint(c, x, y)

\* Which optional handlers a control class defines.
HasHandleClick(c) == Kind(c) # "Panel"
HasHandleKeyDown(c) == Kind(c) # "Panel"
HasActivateRadio(c) == Kind(c) \in {"Button", "Toggle", "Menu", "Radio"}

HasActivate(c) == Kind(c) \in {"Button", "Toggle", "Menu"}
HasGamepadAxis(c) == Kind(c) = "Slider"
HasGamepadLeftRight(c) == Kind(c) \in {"Menu", "Radio"}

\* A call of a handler or of a user callback: what, on which object, with
\* which argument (-1: none).
Call(op, tgt, arg) == [op |-> op, tgt |-> tgt, arg |-> arg]

BoolArg(b) == IF b THEN 1 ELSE 0

\* An exception leaving a callback of the application.  No code of the
\* library catches it: what the library would do after the callback is not
\* done.  Raised(cs): the calls cs of a handler that ends with a callback of
\* a control or with onEscape, and the exception when that callback throws.
Threw(cs) == \E k \in DOMAIN cs : cs[k].op = "throw"

Raised(cs) ==
    IF /\ throws /\ cs # <<>>
       /\ cs[Len(cs)].op \in {"control.callback", "onEscape"}
    THEN cs \o <<Call("throw", cs[Len(cs)].tgt, -1)>>
    ELSE cs

\* The fields of a freshly constructed Button, Toggle or Panel.
NewControl ==
    [pressed |-> FALSE, pressedTime |-> 0, value |-> FALSE, manager |-> Null]

\* The fields of a Slider constructed with (min, max, value, step).
NewSlider(min, max, value, step) ==
    [min |-> min, max |-> max, value |-> value, step |-> step, manager |-> Null]

\* The fields of a Menu (selectedIndex 0) or of a Radio constructed with
\* selectedIndex sel.
NewList(sel) == [selectedIndex |-> sel, manager |-> Null]

\* The Slider of the documentation's example.
DocSlider == NewSlider(0, 100, 50, 5)

\* The fields of a freshly constructed TextInput; value is a sequence of
\* characters.
NewText ==
    [value |-> <<>>, cursorPos |-> 0, cursorVisible |-> TRUE,
     cursorBlinkTime |-> 0, manager |-> Null]

\* The fields of control c as the application constructs it by default.
NewFields(c) ==
    CASE Kind(c) = "Slider"            -> DocSlider
      [] Kind(c) \in {"Menu", "Radio"} -> NewList(0)
      [] Kind(c) = "TextInput"         -> NewText
      [] OTHER                         -> NewControl

\* Slider.handleKeyDown (ArrowLeft / ArrowRight) and
\* Slider.handleGamepadAxis: the value after a step in direction dir.
SliderNoClamp(st, dir) ==
    IF dir < 0 THEN st.value - st.step ELSE st.value + st.step

SliderStep(st, dir) ==
    IF dir < 0
    THEN Max(st.min, st.value - st.step)
    ELSE Min(st.max, st.value + st.step)

SliderAdjust(c, st, dir) ==
    [st |-> [st EXCEPT !.value = SliderStep(st, dir)],
     calls |-> <<Call("control.callback", c, SliderStep(st, dir))>>]

\* Math.round of the quotient num / den, den > 0: the nearest integer, a
\* half rounded up.
JsRound(num, den) == (2 * num + den) \div (2 * den)

\* Slider.updateValueFromX: the value a click at x sets.  percent is
\* pn / sliderWidth and newValue / step is num / (sliderWidth * step).
SnappedValue(c, st, x) ==
    LET sliderX == Rect(c).x + padding
        sliderWidth == Rect(c).width - padding * 2
        pn == Max(0, Min(sliderWidth, x - sliderX))
        num == st.min * sliderWidth + pn * (st.max - st.min)
        rounded == JsRound(num, sliderWidth * st.step) * st.step
    IN  Max(st.min, Min(st.max, rounded))

updateValueFromX(c, st, x) ==
    IF SnappedValue(c, st, x) # st.value
    THEN [st |-> [st EXCEPT !.value = SnappedValue(c, st, x)],
          calls |-> <<Call("control.callback", c, SnappedValue(c, st, x))>>]
    ELSE [st |-> st, calls |-> <<>>]

\* Menu and Radio: selectedIndex moved by d (-1 or +1) with wraparound.
MoveNoWrap(c, st, d) == Max(0, Min(ItemCount(c) - 1, st.selectedIndex + d))

MoveIndex(c, st, d) ==
    IF d < 0
    THEN JsRem(st.selectedIndex - 1 + ItemCount(c), ItemCount(c))
    ELSE JsRem(st.selectedIndex + 1, ItemCount(c))

\* Menu.handleGamepadLeft / handleGamepadRight and the arrow keys of
\* Menu.handleKeyDown: no callback.
MenuMove(c, st, d) ==
    [st |-> [st EXCEPT !.selectedIndex = MoveIndex(c, st, d)], calls |-> <<>>]

\* The options of a Radio: the first ItemCount(c) of the documentation's
\* example.  RadioItem(c, i) is this.items[i].
RadioOptions == <<"Easy", "Medium", "Hard", "Expert">>

RadioItem(c, i) == RadioOptions[i + 1]

\* this.callback(this.selectedIndex, this.items[this.selectedIndex]) of a
\* Radio, selectedIndex being i.
RadioCallback(c, i) ==
    [op |-> "control.callback", tgt |-> c, arg |-> i, value |-> RadioItem(c, i)]

\* Radio.handleGamepadLeft / handleGamepadRight and the arrow keys of
\* Radio.handleKeyDown: this.callback(selectedIndex, item).
RadioMoveStaleItem(c, st, d) ==
    [st |-> [st EXCEPT !.selectedIndex = MoveIndex(c, st, d)],
     calls |-> <<[RadioCallback(c, MoveIndex(c, st, d))
                     EXCEPT !.value = RadioItem(c, st.selectedIndex)]>>]

RadioMove(c, st, d) ==
    [st |-> [st EXCEPT !.selectedIndex = MoveIndex(c, st, d)],
     calls |-> <<RadioCallback(c, MoveIndex(c, st, d))>>]

\* Menu.getItemBounds (vertical, no gap) and the loop of Menu.handleClick:
\* the first item whose bounds contain the point, -1 when none does.
MenuItemAt(c, x, y) ==
    LET hits == {i \in 0..(ItemCount(c) - 1) :
                    /\ x >= Rect(c).x /\ x <= Rect(c).x + Rect(c).width
                    /\ y >= Rect(c).y + i * itemHeight
                    /\ y <= Rect(c).y + i * itemHeight + itemHeight}
    IN  IF hits = {} THEN -1 ELSE CHOOSE i \in hits : \A j \in hits : i <= j

\* Radio.handleClick: Math.floor((y - this.y) / this.itemHeight).
RadioItemAt(c, y) == (y - Rect(c).y) \div itemHeight

\* Selecting item i by a click on a Menu or a Radio.
SelectItem(c, st, i) ==
    IF i >= 0 /\ i < ItemCount(c)
    THEN [st |-> [st EXCEPT !.selectedIndex = i],
          calls |-> <<IF Kind(c) = "Radio" THEN RadioCallback(c, i)
                      ELSE Call("control.callback", c, i)>>]
    ELSE [st |-> st, calls |-> <<>>]

\* Button.activate / Toggle.toggle / Menu.activate: the new fields and the
\* callback's call.
ActivateStale(c, st) ==
    CASE Kind(c) = "Button" ->
           [st |-> [st EXCEPT !.pressed = TRUE, !.pressedTime = 0],
            calls |-> <<Call("control.callback", c, -1)>>]
      [] Kind(c) = "Toggle" ->
           [st |-> [st EXCEPT !.value = ~st.value],
            calls |-> <<Call("control.callback", c, BoolArg(st.value))>>]
      [] OTHER ->
           [st |-> st, calls |-> <<Call("control.callback", c, st.selectedIndex)>>]

Activate(c, st) ==
    CASE Kind(c) = "Button" ->
           [st |-> [st EXCEPT !.pressed = TRUE, !.pressedTime = 0],
            calls |-> <<Call("control.callback", c, -1)>>]
      [] Kind(c) = "Toggle" ->
           [st |-> [st EXCEPT !.value = ~st.value],
            calls |-> <<Call("control.callback", c, BoolArg(~st.value))>>]
      [] OTHER ->
           [st |-> st, calls |-> <<Call("control.callback", c, st.selectedIndex)>>]

(***************************************************************************)
(* TextInput.  A key-down event is named by its e.key; "Ctrl+a" names the  *)
(* event whose e.key is "a" and whose ctrlKey (or metaKey) is set.         *)
(***************************************************************************)
KeyOf(key) == IF key = "Ctrl+a" THEN "a" ELSE key
CtrlOrMeta(key) == key = "Ctrl+a"

\* e.key.length === 1, for the keys of this model.
IsSingleChar(key) == KeyOf(key) \in {"a", "b", " "}

\* this.value.slice(from, to), 0-based, to exclusive.
Slice(v, from, to) == SubSeq(v, from + 1, to)

\* The Backspace branch of TextInput.handleKeyDown.
TextBackspaceAtCursor(st) ==
    IF st.cursorPos > 0
    THEN [st EXCEPT !.value = Slice(st.value, 0, st.cursorPos)
                                 \o Slice(st.value, st.cursorPos + 1, Len(st.value)),
                    !.cursorPos = st.cursorPos - 1]
    ELSE st

TextBackspace(st) ==
    IF st.cursorPos > 0
    THEN [st EXCEPT !.value = Slice(st.value, 0, st.cursorPos - 1)
                                 \o Slice(st.value, st.cursorPos, Len(st.value)),
                    !.cursorPos = st.cursorPos - 1]
    ELSE st

\* The ArrowRight branch of TextInput.handleKeyDown.
TextArrowRightUnclamped(st) == [st EXCEPT !.cursorPos = st.cursorPos + 1]

TextArrowRight(st) ==
    [st EXCEPT !.cursorPos = Min(Len(st.value), st.cursorPos + 1)]

\* TextInput.handleKeyDown.
TextKeyDown(st, key) ==
    LET v == st.value
        p == st.cursorPos
        edited ==
            CASE key = "Backspace"  -> TextBackspace(st)
              [] key = "Delete"     ->
                   IF p < Len(v)
                   THEN [st EXCEPT !.value = Slice(v, 0, p) \o Slice(v, p + 1, Len(v))]
                   ELSE st
              [] key = "ArrowLeft"  -> [st EXCEPT !.cursorPos = Max(0, p - 1)]
              [] key = "ArrowRight" -> TextArrowRight(st)
              [] key = "Home"       -> [st EXCEPT !.cursorPos = 0]
              [] key = "End"        -> [st EXCEPT !.cursorPos = Len(v)]
              [] IsSingleChar(key) /\ ~CtrlOrMeta(key) ->
                   [st EXCEPT !.value = Slice(v, 0, p) \o <<key>> \o Slice(v, p, Len(v)),
                              !.cursorPos = p + 1]
              [] OTHER -> st
    IN  [st |-> [edited EXCEPT !.cursorVisible = TRUE, !.cursorBlinkTime = 0],
         calls |-> <<>>]

\* TextInput.handleClick.
TextClick(st) ==
    [st |-> [st EXCEPT !.cursorPos = Len(st.value)], calls |-> <<>>]

\* The handleClick of each control class.
ControlClick(c, st, x, y) ==
    CASE Kind(c) = "Slider" -> updateValueFromX(c, st, x)
      [] Kind(c) = "TextInput" -> TextClick(st)
      [] Kind(c) = "Menu"   -> SelectItem(c, st, MenuItemAt(c, x, y))
      [] Kind(c) = "Radio"  -> SelectItem(c, st, RadioItemAt(c, y))
      [] OTHER              -> Activate(c, st)

\* The handleKeyDown of each control class.
ControlKeyDown(c, st, key) ==
    LET prev == key \in {"ArrowUp", "ArrowLeft"}
        next == key \in {"ArrowDown", "ArrowRight"}
    IN  CASE Kind(c) = "Slider" ->
               IF key = "ArrowLeft" THEN SliderAdjust(c, st, -1)
               ELSE IF key = "ArrowRight" THEN SliderAdjust(c, st, 1)
               ELSE [st |-> st, calls |-> <<>>]
          [] Kind(c) = "Menu" ->
               IF prev THEN MenuMove(c, st, -1)
               ELSE IF next THEN MenuMove(c, st, 1)
               ELSE IF key \in {"Enter", " "} THEN Activate(c, st)
               ELSE [st |-> st, calls |-> <<>>]
          [] Kind(c) = "Radio" ->
               IF prev THEN RadioMove(c, st, -1)
               ELSE IF next THEN RadioMove(c, st, 1)
               ELSE [st |-> st, calls |-> <<>>]
          [] Kind(c) = "TextInput" -> TextKeyDown(st, key)
          [] OTHER ->
               IF key \in {"Enter", " "}
               THEN Activate(c, st)
               ELSE [st |-> st, calls |-> <<>>]

\* The directional adjust CanvasUIMark.handleGamepadButton delivers for
\* buttons 14 (dir -1) and 15 (dir 1): handleGamepadAxis(dir) when the class
\* defines it, else handleGamepadLeft() / handleGamepadRight().
ControlPadAdjust(c, st, dir) ==
    CASE HasGamepadAxis(c) ->
           [st |-> SliderAdjust(c, st, dir).st,
            calls |-> <<Call("control.handleGamepadAxis", c, dir)>>
                         \o SliderAdjust(c, st, dir).calls]
      [] HasGamepadLeftRight(c) ->
           LET r == IF Kind(c) = "Menu" THEN MenuMove(c, st, dir)
                    ELSE RadioMove(c, st, dir)
           IN  [st |-> r.st,
                calls |-> <<Call(IF dir < 0 THEN "control.handleGamepadLeft"
                                 ELSE "control.handleGamepadRight", c, -1)>>
                             \o r.calls]
      [] OTHER -> [st |-> st, calls |-> <<>>]

(***************************************************************************)
(* Strings.  A label is a sequence of characters, so that toLowerCase is   *)
(* computed character by character.                                        *)
(***************************************************************************)
LowerChar(ch) ==
    CASE ch = "A" -> "a" [] ch = "C" -> "c" [] ch = "E" -> "e"
      [] ch = "L" -> "l" [] ch = "N" -> "n" [] ch = "O" -> "o"
      [] ch = "R" -> "r" [] ch = "S" -> "s" [] ch = "Y" -> "y"
      [] ch = "K" -> "k" [] ch = "X" -> "x" [] ch = "I" -> "i"
      [] ch = "T" -> "t"
      [] OTHER -> ch

toLowerCase(s) == [i \in DOMAIN s |-> LowerChar(s[i])]

LabelOK == <<"O", "K">>
LabelResume == <<"R", "e", "s", "u", "m", "e">>
LabelExit == <<"E", "x", "i", "t">>
LabelYes == <<"Y", "e", "s">>
LabelNo == <<"N", "o">>
LabelAgain == <<"A", "g", "a", "i", "n">>
LabelCANCEL == <<"C", "A", "N", "C", "E", "L">>
LabelClose == <<"C", "l", "o", "s", "e">>

(***************************************************************************)
(* Modals.  A modal on the stack is [cfg, sel]: cfg names the button list  *)
(* showModal was given, sel is selectedButton.  Every showModal constructs *)
(* a new object, so a modal on the stack is identified by its position; a  *)
(* reference to a modal is that position, or 0 once the modal is closed.   *)
(* A button's callback is "none" (no callback), "noop" (application code   *)
(* that leaves the user interface alone), "close" (the default OK button:  *)
(* () => this.close()) or "show" (application code that opens another      *)
(* modal).                                                                 *)
(***************************************************************************)
Btn(label, cb) == [label |-> label, cb |-> cb]

\* The button lists the application passes to showModal.
ButtonSets ==
    << <<>>,
       <<Btn(LabelResume, "noop"), Btn(LabelExit, "noop")>>,
       <<Btn(LabelYes, "noop"), Btn(LabelNo, "noop")>>,
       <<Btn(LabelAgain, "show"), Btn(LabelCANCEL, "none"), Btn(LabelClose, "noop")>>,
       <<Btn(LabelExit, "show")>> >>

Configs == DOMAIN ButtonSets

\* Modal.constructor: this.buttons.
Buttons(m) ==
    IF Len(ButtonSets[m.cfg]) > 0
    THEN ButtonSets[m.cfg]
    ELSE <<Btn(LabelOK, "close")>>

\* Modal.constructor: geometry, with options.width and options.height given.
ModalWidth == Min(OptWidth, (CanvasWidth * 9) \div 10)
ModalHeight == Min(OptHeight, (CanvasHeight * 9) \div 10)
ModalX == (CanvasWidth - ModalWidth) \div 2
ModalY == (CanvasHeight - ModalHeight) \div 2

\* References the application may hold: to each open modal, and to a closed one.
Handles == 0..MaxModals

\* this.modals.indexOf(modal), 1-based; 0 when the modal is not on the stack.
IndexOfModal(mods, h) == IF h \in DOMAIN mods THEN h ELSE 0

\* Array.prototype.splice(index, 1), 1-based.
RemoveLast(s, k) == SubSeq(s, 1, Len(s) - 1)

RemoveAt(s, k) == [j \in 1..(Len(s) - 1) |-> IF j < k THEN s[j] ELSE s[j + 1]]

\* CanvasUIMark.closeModal.
closeModalPop(mods, h) == SubSeq(mods, 1, Len(mods) - 1)

closeModal(mods, h) ==
    IF IndexOfModal(mods, h) > 0
    THEN RemoveAt(mods, IndexOfModal(mods, h))
    ELSE mods

\* CanvasUIMark.showModal.
showModalBottom(mods, cfg) == <<[cfg |-> cfg, sel |-> 0]>> \o mods

showModal(mods, cfg) == Append(mods, [cfg |-> cfg, sel |-> 0])

\* if (button.callback) button.callback(), for button i of the modal at
\* position h: the stack, the calls, and where the modal is afterwards.
RunModalCallback(h, i, mods) ==
    LET cb == Buttons(mods[h])[i + 1].cb
        call == Call("modal.callback", h, i)
        thrown == IF throws THEN <<Call("throw", h, i)>> ELSE <<>>
    IN  CASE cb = "none"  -> [mods |-> mods, calls |-> <<>>, self |-> h]
          [] cb = "noop"  -> [mods |-> mods, calls |-> <<call>> \o thrown, self |-> h]
          [] cb = "close" -> [mods |-> closeModal(mods, h),
                              calls |-> <<call, Call("closeModal", h, -1)>>,
                              self |-> 0]
          [] OTHER        -> [mods |-> showModal(mods, 1),
                              calls |-> <<call, Call("showModal", Len(mods) + 1, -1)>>
                                           \o thrown,
                              self |-> h]

\* The callback of button i, then this.close().
CloseThenInvoke(h, i, mods) ==
    LET r == RunModalCallback(h, i, mods)
    IN  [mods |-> closeModal(r.mods, r.self),
         calls |-> <<Call("closeModal", h, -1)>> \o r.calls]

InvokeAndCloseAnyway(h, i, mods) ==
    LET r == RunModalCallback(h, i, mods)
    IN  [mods |-> closeModal(r.mods, r.self),
         calls |-> r.calls \o <<Call("closeModal", h, -1)>>]

InvokeAndClose(h, i, mods) ==
    LET r == RunModalCallback(h, i, mods)
    IN  IF Threw(r.calls)
        THEN [mods |-> r.mods, calls |-> r.calls]
        ELSE [mods |-> closeModal(r.mods, r.self),
              calls |-> r.calls \o <<Call("closeModal", h, -1)>>]

\* Modal.handleClick: the index of the first button that contains the point,
\* -1 when none does.
ModalButtonsY == ModalY + ModalHeight - buttonHeight - buttonMargin
ModalStartX(n) ==
    ModalX + (ModalWidth - (n * buttonWidth + (n - 1) * buttonSpacing)) \div 2
ModalButtonX(n, i) == ModalStartX(n) + i * (buttonWidth + buttonSpacing)

ModalButtonHit(n, i, x, y) ==
    /\ x >= ModalButtonX(n, i) /\ x <= ModalButtonX(n, i) + buttonWidth
    /\ y >= ModalButtonsY /\ y <= ModalButtonsY + buttonHeight

ModalHitIndex(m, x, y) ==
    LET n == Len(Buttons(m))
        hits == {i \in 0..(n - 1) : ModalButtonHit(n, i, x, y)}
    IN  IF hits = {} THEN -1
        ELSE CHOOSE i \in hits : \A j \in hits : i <= j

ModalClickMissCloses(h, x, y, mods) ==
    IF ModalHitIndex(mods[h], x, y) >= 0
    THEN InvokeAndClose(h, ModalHitIndex(mods[h], x, y), mods)
    ELSE [mods |-> closeModal(mods, h), calls |-> <<Call("closeModal", h, -1)>>]

ModalHandleClick(h, x, y, mods) ==
    IF ModalHitIndex(mods[h], x, y) >= 0
    THEN InvokeAndClose(h, ModalHitIndex(mods[h], x, y), mods)
    ELSE [mods |-> mods, calls |-> <<>>]

\* The label test of Modal.handleKeyDown's Escape branch.
IsExitLabel(label) ==
    \/ toLowerCase(label) = <<"e", "x", "i", "t">>
    \/ toLowerCase(label) = <<"c", "l", "o", "s", "e">>
    \/ toLowerCase(label) = <<"c", "a", "n", "c", "e", "l">>

\* this.buttons.find(...): the index of the first exit button, -1 when none.
FindExitButtonLast(m) ==
    LET found == {i \in 0..(Len(Buttons(m)) - 1) : IsExitLabel(Buttons(m)[i + 1].label)}
    IN  IF found = {} THEN -1
        ELSE CHOOSE i \in found : \A j \in found : i >= j

FindExitButton(m) ==
    LET found == {i \in 0..(Len(Buttons(m)) - 1) : IsExitLabel(Buttons(m)[i + 1].label)}
    IN  IF found = {} THEN -1
        ELSE CHOOSE i \in found : \A j \in found : i <= j

\* The Escape branch of Modal.handleKeyDown (and button 1 of
\* Modal.handleGamepadButton).
ModalEscape(h, mods) ==
    IF FindExitButton(mods[h]) >= 0
    THEN InvokeAndClose(h, FindExitButton(mods[h]), mods)
    ELSE [mods |-> closeModal(mods, h),
          calls |-> <<Call("closeModal", h, -1)>>]

\* selectedButton moved by d (-1 or +1) with wraparound.
MoveSelectedClamped(h, d, mods) ==
    LET n == Len(Buttons(mods[h]))
    IN  [mods |-> [mods EXCEPT ![h].sel = Max(0, Min(n - 1, mods[h].sel + d))],
         calls |-> <<>>]

MoveSelected(h, d, mods) ==
    LET n == Len(Buttons(mods[h]))
    IN  [mods |-> [mods EXCEPT ![h].sel = JsRem(mods[h].sel + d + n, n)],
         calls |-> <<>>]

\* Modal.handleKeyDown.
ModalHandleKeyDown(h, key, mods) ==
    CASE key = "ArrowLeft"      -> MoveSelected(h, -1, mods)
      [] key = "ArrowRight"     -> MoveSelected(h, 1, mods)
      [] key \in {"Enter", " "} -> InvokeAndClose(h, mods[h].sel, mods)
      [] key = "Escape"         -> ModalEscape(h, mods)
      [] OTHER                  -> [mods |-> mods, calls |-> <<>>]

\* Modal.handleGamepadButton.
ModalPadCancelOnlyCloses(h, b, mods) ==
    CASE b = 0  -> InvokeAndClose(h, mods[h].sel, mods)
      [] b = 1  -> [mods |-> closeModal(mods, h),
                    calls |-> <<Call("closeModal", h, -1)>>]
      [] b = 14 -> MoveSelected(h, -1, mods)
      [] b = 15 -> MoveSelected(h, 1, mods)
      [] OTHER  -> [mods |-> mods, calls |-> <<>>]

ModalHandleGamepadButton(h, b, mods) ==
    CASE b = 0  -> InvokeAndClose(h, mods[h].sel, mods)
      [] b = 1  -> ModalEscape(h, mods)
      [] b = 14 -> MoveSelected(h, -1, mods)
      [] b = 15 -> MoveSelected(h, 1, mods)
      [] OTHER  -> [mods |-> mods, calls |-> <<>>]

(***************************************************************************)
(* The coordinator's focus arithmetic and hit test.                        *)
(***************************************************************************)
\* CanvasUIMark.focusNext: the new focus index, for n controls.
FocusNextClamped(i, n) == IF n = 0 THEN i ELSE Min(i + 1, n - 1)

FocusNextIndex(i, n) == IF n = 0 THEN i ELSE JsRem(i + 1, n)

\* CanvasUIMark.focusPrevious.
FocusPreviousUnguarded(i, n) == JsRem(i - 1 + Max(n, 1), Max(n, 1))

FocusPreviousIndex(i, n) == IF n = 0 THEN i ELSE JsRem(i - 1 + n, n)

\* this.controls.indexOf(control), 0-based; -1 when absent.
IndexOfControl(ctrls, c) ==
    IF \E k \in DOMAIN ctrls : ctrls[k] = c
    THEN (CHOOSE k \in DOMAIN ctrls :
            ctrls[k] = c /\ \A j \in 1..(k - 1) : ctrls[j] # c) - 1
    ELSE -1

\* CanvasUIMark.getCanvasMousePosition.
getCanvasMousePosition(cx, cy) ==
    [x |-> (cx - RectLeft) * (CanvasWidth \div RectWidth),
     y |-> (cy - RectTop) * (CanvasHeight \div RectHeight)]

\* The scan of CanvasUIMark.handleClick: the 0-based index of the control
\* that takes the click, -1 when no control contains the point.
HitControlFirstAdded(ctrls, x, y) ==
    LET hits == {i \in 0..(Len(ctrls) - 1) : containsPoint(ctrls[i + 1], x, y)}
    IN  IF hits = {} THEN -1
        ELSE CHOOSE i \in hits : \A j \in hits : i <= j

HitControl(ctrls, x, y) ==
    LET hits == {i \in 0..(Len(ctrls) - 1) : containsPoint(ctrls[i + 1], x, y)}
    IN  IF hits = {} THEN -1
        ELSE CHOOSE i \in hits : \A j \in hits : i >= j

HasFocus == focusIndex >= 0 /\ focusIndex < Len(controls)
Focused == controls[focusIndex + 1]

(***************************************************************************)
(* Events.                                                                 *)
(***************************************************************************)
Ev(type) == [type |-> type, x |-> 0, y |-> 0]

Keys == {"Tab", "Escape", "Enter", " ", "ArrowLeft", "ArrowRight", "a"}

\* Click positions, in client coordinates: off everything, on control 1
\* alone, on the corner controls 1 and 2 share, on the corner controls 2 and
\* 4 share, on the Panel alone.
ControlPoints == {<<0, 0>>, <<75, 55>>, <<150, 75>>, <<200, 85>>, <<200, 150>>}

\* Along a modal's button row: on the first of two or three buttons, between
\* two buttons and on the single or the middle button, on the last of two or
\* three buttons.
ButtonRowPoints == {<<250, 200>>, <<320, 200>>, <<375, 200>>}

\* The clicks of Spec: over the controls, and on a default modal's button.
ClientPoints == ControlPoints \cup {<<320, 200>>}

\* The clicks of SpecModal: along the button row, outside the modal on
\* control 1, and in the modal's body.
ModalClientPoints == ButtonRowPoints \cup {<<75, 55>>, <<200, 150>>}

\* e.shiftKey matters to Tab alone.
KeyEvents == {<<key, shift>> \in Keys \X BOOLEAN : shift => key = "Tab"}

\* Controller button indices: the six the code names, and one it does not.
PadButtons == {0, 1, 2, 12, 13, 14, 15}

\* What dispatch to the topmost modal leaves behind: r is the modal
\* handler's result, first the call that entered the handler.
ToModal(first, r) ==
    /\ modals' = r.mods
    /\ calls' = <<first>> \o r.calls
    /\ UNCHANGED <<focusIndex, ctl>>

\* What dispatch to control c leaves behind.
ToControl(first, c, r) ==
    /\ ctl' = [ctl EXCEPT ![c] = r.st]
    /\ calls' = Raised(<<first>> \o r.calls)
    /\ UNCHANGED modals

\* if (this.onEscape) this.onEscape().
CallOnEscapeUnguarded ==
    /\ calls' = <<Call("onEscape", 0, -1)>>
    /\ UNCHANGED <<focusIndex, modals, ctl>>

CallOnEscape ==
    /\ calls' = IF onEscape # Null THEN Raised(<<Call("onEscape", 0, -1)>>) ELSE <<>>
    /\ UNCHANGED <<focusIndex, modals, ctl>>

Nothing ==
    /\ calls' = <<>>
    /\ UNCHANGED <<focusIndex, modals, ctl>>

MoveFocus(i) ==
    /\ focusIndex' = i
    /\ calls' = <<>>
    /\ UNCHANGED <<modals, ctl>>

Untouched ==
    UNCHANGED <<toasts, timers, now, armed, animationFrameId, lastFrameTime,
                born, mouse, throws, pad, lastGamepadButtons>>

\* CanvasUIMark.handleKeyDown.
KeyDownTabBeforeModal(key, shift) ==
    /\ ev' = Ev("keydown")
    /\ keys' = keys \cup {KeyOf(key)}
    /\ IF key = "Tab"
       THEN MoveFocus(IF shift
                      THEN FocusPreviousIndex(focusIndex, Len(controls))
                      ELSE FocusNextIndex(focusIndex, Len(controls)))
       ELSE IF Len(modals) > 0
       THEN ToModal(Call("modal.handleKeyDown", Len(modals), -1),
                    ModalHandleKeyDown(Len(modals), key, modals))
       ELSE IF key = "Escape"
       THEN CallOnEscape
       ELSE IF HasFocus /\ HasHandleKeyDown(Focused)
       THEN /\ ToControl(Call("control.handleKeyDown", Focused, -1), Focused,
                         ControlKeyDown(Focused, ctl[Focused], key))
            /\ UNCHANGED focusIndex
       ELSE Nothing
    /\ Len(modals') <= MaxModals
    /\ UNCHANGED <<controls, onEscape>>
    /\ Untouched

KeyDownTabToControl(key, shift) ==
    /\ ev' = Ev("keydown")
    /\ keys' = keys \cup {KeyOf(key)}
    /\ IF Len(modals) > 0
       THEN ToModal(Call("modal.handleKeyDown", Len(modals), -1),
                    ModalHandleKeyDown(Len(modals), key, modals))
       ELSE IF key = "Escape"
       THEN CallOnEscape
       ELSE IF HasFocus /\ HasHandleKeyDown(Focused)
       THEN /\ ToControl(Call("control.handleKeyDown", Focused, -1), Focused,
                         ControlKeyDown(Focused, ctl[Focused], key))
            /\ UNCHANGED focusIndex
       ELSE Nothing
    /\ Len(modals') <= MaxModals
    /\ UNCHANGED <<controls, onEscape>>
    /\ Untouched

handleKeyDown(key, shift) ==
    /\ ev' = Ev("keydown")
    /\ keys' = keys \cup {KeyOf(key)}
    /\ IF key = "Escape"
       THEN IF Len(modals) > 0
            THEN ToModal(Call("modal.handleKeyDown", Len(modals), -1),
                         ModalHandleKeyDown(Len(modals), key, modals))
            ELSE CallOnEscape
       ELSE IF Len(modals) > 0
       THEN ToModal(Call("modal.handleKeyDown", Len(modals), -1),
                    ModalHandleKeyDown(Len(modals), key, modals))
       ELSE IF key = "Tab"
       THEN MoveFocus(IF shift
                      THEN FocusPreviousIndex(focusIndex, Len(controls))
                      ELSE FocusNextIndex(focusIndex, Len(controls)))
       ELSE IF HasFocus /\ HasHandleKeyDown(Focused)
       THEN /\ ToControl(Call("control.handleKeyDown", Focused, -1), Focused,
                         ControlKeyDown(Focused, ctl[Focused], key))
            /\ UNCHANGED focusIndex
       ELSE Nothing
    /\ Len(modals') <= MaxModals
    /\ UNCHANGED <<controls, onEscape>>
    /\ Untouched

\* CanvasUIMark.handleKeyUp.
handleKeyUp(key) ==
    /\ ev' = Ev("keyup")
    /\ keys' = keys \ {key}
    /\ calls' = <<>>
    /\ UNCHANGED <<controls, focusIndex, modals, onEscape, ctl>>
    /\ Untouched

\* CanvasUIMark.handleMouseMove, for the pointer at client position
\* (cx, cy).
handleMouseMoveHover(cx, cy) ==
    LET pos == getCanvasMousePosition(cx, cy)
        hit == HitControl(controls, pos.x, pos.y)
    IN  /\ ev' = [type |-> "mousemove", x |-> pos.x, y |-> pos.y]
        /\ mouse' = [mouse EXCEPT !.x = pos.x, !.y = pos.y]
        /\ focusIndex' = IF hit >= 0 THEN hit ELSE focusIndex
        /\ calls' = <<>>
        /\ UNCHANGED <<controls, modals, keys, onEscape, ctl, toasts, timers,
                       now, armed, animationFrameId, lastFrameTime, born,
                       throws, pad, lastGamepadButtons>>

handleMouseMove(cx, cy) ==
    LET pos == getCanvasMousePosition(cx, cy)
    IN  /\ ev' = [type |-> "mousemove", x |-> pos.x, y |-> pos.y]
        /\ mouse' = [mouse EXCEPT !.x = pos.x, !.y = pos.y]
        /\ calls' = <<>>
        /\ UNCHANGED <<controls, focusIndex, modals, keys, onEscape, ctl,
                       toasts, timers, now, armed, animationFrameId,
                       lastFrameTime, born, throws, pad, lastGamepadButtons>>

\* Bit b of the mask m of pointer buttons.
BitSet(m, b) == (m \div 2 ^ b) % 2 = 1

\* CanvasUIMark.handleMouseDown: this.mouse.buttons |= (1 << e.button).
handleMouseDown(b) ==
    /\ ev' = Ev("mousedown")
    /\ mouse' = [mouse EXCEPT !.buttons = IF BitSet(@, b) THEN @ ELSE @ + 2 ^ b]
    /\ calls' = <<>>
    /\ UNCHANGED <<controls, focusIndex, modals, keys, onEscape, ctl, toasts,
                   timers, now, armed, animationFrameId, lastFrameTime, born,
                   throws, pad, lastGamepadButtons>>

\* CanvasUIMark.handleMouseUp: this.mouse.buttons &= ~(1 << e.button).
handleMouseUp(b) ==
    /\ ev' = Ev("mouseup")
    /\ mouse' = [mouse EXCEPT !.buttons = IF BitSet(@, b) THEN @ - 2 ^ b ELSE @]
    /\ calls' = <<>>
    /\ UNCHANGED <<controls, focusIndex, modals, keys, onEscape, ctl, toasts,
                   timers, now, armed, animationFrameId, lastFrameTime, born,
                   throws, pad, lastGamepadButtons>>

\* CanvasUIMark.handleClick, for a click at client position (cx, cy).
handleClick(cx, cy) ==
    LET pos == getCanvasMousePosition(cx, cy)
        hit == HitControl(controls, pos.x, pos.y)
    IN  /\ ev' = [type |-> "click", x |-> pos.x, y |-> pos.y]
        /\ IF Len(modals) > 0
           THEN ToModal(Call("modal.handleClick", Len(modals), -1),
                        ModalHandleClick(Len(modals), pos.x, pos.y, modals))
           ELSE IF hit >= 0
           THEN /\ focusIndex' = hit
                /\ IF HasHandleClick(controls[hit + 1])
                   THEN ToControl(Call("control.handleClick", controls[hit + 1], -1),
                                  controls[hit + 1],
                                  ControlClick(controls[hit + 1], ctl[controls[hit + 1]],
                                               pos.x, pos.y))
                   ELSE calls' = <<>> /\ UNCHANGED <<modals, ctl>>
           ELSE Nothing
        /\ Len(modals') <= MaxModals
        /\ UNCHANGED <<controls, keys, onEscape>>
        /\ Untouched

\* The part of the coordinator's state that dispatching a controller
\* button reads and writes; calls is the log so far.
PadState == [focusIndex |-> focusIndex, modals |-> modals, ctl |-> ctl,
             calls |-> <<>>]

\* CanvasUIMark.handleGamepadButton(b) in state s: the state after it, the
\* calls it made appended to the log.
PadDirectionFlipped(b) == IF b = 14 THEN 1 ELSE -1

PadDirection(b) == IF b = 14 THEN -1 ELSE 1

PadDispatch(s, b) ==
    LET hasFocus == s.focusIndex >= 0 /\ s.focusIndex < Len(controls)
        f == controls[s.focusIndex + 1]
        toControl(first, r) ==
            [s EXCEPT !.ctl[f] = r.st,
                      !.calls = Raised(@ \o <<first>> \o r.calls)]
    IN  IF Len(s.modals) > 0
        THEN LET r == ModalHandleGamepadButton(Len(s.modals), b, s.modals)
             IN  [s EXCEPT !.modals = r.mods,
                           !.calls = @ \o <<Call("modal.handleGamepadButton",
                                                 Len(s.modals), b)>> \o r.calls]
        ELSE CASE b = 0 ->
                    IF hasFocus /\ HasActivate(f)
                    THEN toControl(Call("control.activate", f, -1),
                                   Activate(f, s.ctl[f]))
                    ELSE s
               [] b = 1 ->
                    IF onEscape # Null
                    THEN [s EXCEPT !.calls = Raised(@ \o <<Call("onEscape", 0, -1)>>)]
                    ELSE s
               [] b = 12 ->
                    [s EXCEPT !.focusIndex = FocusPreviousIndex(@, Len(controls))]
               [] b = 13 ->
                    [s EXCEPT !.focusIndex = FocusNextIndex(@, Len(controls))]
               [] b \in {14, 15} ->
                    IF hasFocus
                    THEN LET r == ControlPadAdjust(f, s.ctl[f], PadDirection(b))
                         IN  [s EXCEPT !.ctl[f] = r.st,
                                       !.calls = Raised(@ \o r.calls)]
                    ELSE s
               [] OTHER -> s

\* A controller button dispatched on its own.
handleGamepadButton(b) ==
    /\ ev' = Ev("button")
    /\ focusIndex' = PadDispatch(PadState, b).focusIndex
    /\ modals' = PadDispatch(PadState, b).modals
    /\ ctl' = PadDispatch(PadState, b).ctl
    /\ calls' = PadDispatch(PadState, b).calls
    /\ Len(modals') <= MaxModals
    /\ UNCHANGED <<controls, keys, onEscape>>
    /\ Untouched

(***************************************************************************)
(* The application's calls.                                                *)
(***************************************************************************)
\* CanvasUIMark.focusNext / focusPrevious, called by the application.
focusNext ==
    /\ ev' = Ev("focusNext")
    /\ MoveFocus(FocusNextIndex(focusIndex, Len(controls)))
    /\ UNCHANGED <<controls, keys, onEscape>>
    /\ Untouched

focusPrevious ==
    /\ ev' = Ev("focusPrevious")
    /\ MoveFocus(FocusPreviousIndex(focusIndex, Len(controls)))
    /\ UNCHANGED <<controls, keys, onEscape>>
    /\ Untouched

\* CanvasUIMark.addControl: the focus index after the push.
FocusAfterAddMoves(i, n) == n - 1

FocusAfterAdd(i, n) == IF i = -1 /\ n = 1 THEN 0 ELSE i

\* The application registers control c, whose fields are st: c is an object
\* it constructed earlier (st = ctl[c]) or constructs for this call.
Register(c, st) ==
    /\ ev' = Ev("addControl")
    /\ ctl' = [ctl EXCEPT ![c] = [st EXCEPT !.manager = "this"]]
    /\ controls' = Append(controls, c)
    /\ focusIndex' = FocusAfterAdd(focusIndex, Len(controls'))
    /\ calls' = <<>>
    /\ UNCHANGED <<modals, keys, onEscape>>
    /\ Untouched

addControl(c) == Register(c, ctl[c])

\* CanvasUIMark.removeControl: the focus index after the splice.
FocusAfterRemoveKept(i, n) == i

FocusAfterRemove(i, n) == IF i >= n THEN n - 1 ELSE i

removeControl(c) ==
    /\ ev' = Ev("removeControl")
    /\ IF IndexOfControl(controls, c) > -1
       THEN /\ controls' = RemoveAt(controls, IndexOfControl(controls, c) + 1)
            /\ MoveFocus(FocusAfterRemove(focusIndex, Len(controls')))
       ELSE UNCHANGED controls /\ Nothing
    /\ UNCHANGED <<keys, onEscape>>
    /\ Untouched

\* ui.showModal(title, message, ButtonSets[cfg], options).
ShowModal(cfg) ==
    /\ Len(modals) < MaxModals
    /\ ev' = Ev("showModal")
    /\ modals' = showModal(modals, cfg)
    /\ calls' = <<>>
    /\ UNCHANGED <<controls, focusIndex, keys, onEscape, ctl>>
    /\ Untouched

\* ui.closeModal(modal) / modal.close(), called by the application on a
\* reference it holds.
CloseModal(h) ==
    /\ ev' = Ev("closeModal")
    /\ modals' = closeModal(modals, h)
    /\ calls' = <<>>
    /\ UNCHANGED <<controls, focusIndex, keys, onEscape, ctl>>
    /\ Untouched

\* ui.onEscape = callback, or = null.
SetOnEscape(cb) ==
    /\ ev' = Ev("onEscape")
    /\ onEscape' = cb
    /\ calls' = <<>>
    /\ UNCHANGED <<controls, focusIndex, modals, keys, ctl>>
    /\ Untouched

(***************************************************************************)
(* Spec: the state after the constructor, then any sequence of application *)
(* calls and input events.  A control is registered at most once at a      *)
(* time; the application opens default modals only.  this.keys is written  *)
(* by handleKeyDown and handleKeyUp and read nowhere, so each key goes up  *)
(* before the next event.                                                  *)
(***************************************************************************)
Init ==
    /\ controls = <<>>
    /\ focusIndex = -1
    /\ modals = <<>>
    /\ toasts = <<>>
    /\ keys = {}
    /\ onEscape = Null
    /\ ctl = [c \in AllIds |-> NewFields(c)]
    /\ timers = {}
    /\ now = 0
    /\ armed = {1}
    /\ animationFrameId = 1
    /\ lastFrameTime = 0
    /\ born = {}
    /\ pad = <<>>
    /\ lastGamepadButtons = {}
    /\ mouse = [x |-> 0, y |-> 0, buttons |-> 0]
    /\ throws = FALSE
    /\ ev = Ev("constructor")
    /\ calls = <<>>

Idle == keys = {}

\* The application registers a control after those it created before it.
CreatedLast(c) == \A k \in DOMAIN controls : controls[k] < c

KeyGoesUp == \E key \in keys : handleKeyUp(key)

Next ==
    \/ Idle /\ \E c \in ControlIds : CreatedLast(c) /\ addControl(c)
    \/ Idle /\ \E c \in ControlIds : removeControl(c)
    \/ Idle /\ focusNext
    \/ Idle /\ focusPrevious
    \/ Idle /\ ShowModal(1)
    \/ Idle /\ \E h \in Handles : CloseModal(h)
    \/ Idle /\ \E cb \in {Null, "cb"} : SetOnEscape(cb)
    \/ Idle /\ \E e \in KeyEvents : handleKeyDown(e[1], e[2])
    \/ KeyGoesUp
    \/ Idle /\ \E p \in ClientPoints : handleClick(p[1], p[2])
    \/ Idle /\ \E b \in PadButtons : handleGamepadButton(b)

Spec == Init /\ [][Next]_vars

(***************************************************************************)
(* SpecModal: input while a modal is open.  The application registers its  *)
(* controls in order, opens modals with any of the button lists and closes *)
(* them; key, click and controller events arrive while a modal is open.    *)
(***************************************************************************)
ModalOpen == Len(modals) > 0

NextModal ==
    \/ Idle /\ Len(controls) < MaxControls /\ addControl(Len(controls) + 1)
    \/ Idle /\ \E cfg \in Configs : ShowModal(cfg)
    \/ Idle /\ \E h \in Handles : CloseModal(h)
    \/ Idle /\ ModalOpen /\ \E e \in KeyEvents : handleKeyDown(e[1], e[2])
    \/ KeyGoesUp
    \/ Idle /\ ModalOpen /\ \E p \in ModalClientPoints : handleClick(p[1], p[2])
    \/ Idle /\ ModalOpen /\ \E b \in PadButtons : handleGamepadButton(b)

SpecModal == Init /\ [][NextModal]_vars

(***************************************************************************)
(* Toasts, the host's timers and the render loop.                          *)
(***************************************************************************)
Durations == 1..MaxDuration

\* this.toasts.indexOf(toast), 1-based; 0 when absent.
IndexOfToast(ts, id) ==
    IF \E k \in DOMAIN ts : ts[k] = id
    THEN CHOOSE k \in DOMAIN ts : ts[k] = id /\ \A j \in 1..(k - 1) : ts[j] # id
    ELSE 0

\* The callback showToast hands to setTimeout.
ExpireOldest(ts, id) == IF Len(ts) > 0 THEN RemoveAt(ts, 1) ELSE ts

\* splice(index, 1) without the test of index: splice(-1, 1) removes the
\* last element.
ExpireUnguarded(ts, id) ==
    IF IndexOfToast(ts, id) > 0 THEN RemoveAt(ts, IndexOfToast(ts, id))
    ELSE SubSeq(ts, 1, Len(ts) - 1)

ExpireToast(ts, id) ==
    IF IndexOfToast(ts, id) > 0 THEN RemoveAt(ts, IndexOfToast(ts, id)) ELSE ts

\* CanvasUIMark.showToast(message, type, d): a new Toast object, pushed, and
\* its removal scheduled d from now.
ShowToastUpTo(d, cap) ==
    LET id == Cardinality(born) + 1
    IN  /\ Cardinality(born) < cap
        /\ ev' = Ev("showToast")
        /\ toasts' = Append(toasts, id)
        /\ timers' = timers \cup {[id |-> id, due |-> now + d]}
        /\ born' = born \cup {[id |-> id, at |-> now, duration |-> d]}
        /\ calls' = <<>>
        /\ UNCHANGED <<controls, focusIndex, modals, keys, onEscape, ctl, now,
                       armed, animationFrameId, lastFrameTime, pad,
                       lastGamepadButtons, mouse, throws>>

showToast(d) == ShowToastUpTo(d, MaxToasts)

\* The application takes a toast out of ui.toasts itself, before the
\* toast's time is up, with the reference showToast returned.
DropToast(id) ==
    /\ IndexOfToast(toasts, id) > 0
    /\ ev' = Ev("dropToast")
    /\ toasts' = RemoveAt(toasts, IndexOfToast(toasts, id))
    /\ calls' = <<>>
    /\ UNCHANGED <<controls, focusIndex, modals, keys, onEscape, ctl, timers,
                   now, armed, animationFrameId, lastFrameTime, born, pad,
                   lastGamepadButtons, mouse, throws>>

\* The host runs a setTimeout callback once its delay has elapsed, the
\* earliest due first and, among equals, the earliest set first.
TimerDue(t) == t.due <= now

TimerFirst(t) ==
    \A u \in timers : u.due > t.due \/ (u.due = t.due /\ u.id >= t.id)

TimerFires(t) ==
    /\ TimerDue(t)
    /\ TimerFirst(t)
    /\ ev' = Ev("timeout")
    /\ toasts' = ExpireToast(toasts, t.id)
    /\ timers' = timers \ {t}
    /\ calls' = <<>>
    /\ UNCHANGED <<controls, focusIndex, modals, keys, onEscape, ctl, now,
                   armed, animationFrameId, lastFrameTime, born, mouse,
                   throws, pad, lastGamepadButtons>>

\* Time passes, once the host has run the timers that are due.
Tick ==
    /\ now < MaxTime
    /\ \A t \in timers : ~TimerDue(t)
    /\ now' = now + 1
    /\ UNCHANGED <<controls, focusIndex, modals, toasts, keys, onEscape, ctl,
                   timers, armed, animationFrameId, lastFrameTime, born,
                   mouse, throws, pad, lastGamepadButtons, ev, calls>>

\* requestAnimationFrame: the id of the newly armed callback.
FreshFrameId ==
    CHOOSE id \in 1..(MaxLoops + 2) :
        /\ id \notin armed \cup {animationFrameId}
        /\ \A j \in 1..(id - 1) : j \in armed \cup {animationFrameId}

\* CanvasUIMark.start.
start ==
    /\ Cardinality(armed) < MaxLoops
    /\ ev' = Ev("start")
    /\ armed' = armed \cup {FreshFrameId}
    /\ animationFrameId' = FreshFrameId
    /\ calls' = <<>>
    /\ UNCHANGED <<controls, focusIndex, modals, toasts, keys, onEscape, ctl,
                   timers, now, lastFrameTime, born, mouse, throws, pad,
                   lastGamepadButtons>>

\* CanvasUIMark.stop.
stop ==
    /\ ev' = Ev("stop")
    /\ IF animationFrameId # 0
       THEN armed' = armed \ {animationFrameId} /\ animationFrameId' = 0
       ELSE UNCHANGED <<armed, animationFrameId>>
    /\ calls' = <<>>
    /\ UNCHANGED <<controls, focusIndex, modals, toasts, keys, onEscape, ctl,
                   timers, now, lastFrameTime, born, mouse, throws, pad,
                   lastGamepadButtons>>

\* Button.update(deltaTime) and TextInput.update(deltaTime); the other
\* control classes of this model have no update.
UpdateControlKeepsPressed(c, st, dt) ==
    IF Kind(c) = "Button" /\ st.pressed
    THEN [st EXCEPT !.pressedTime = st.pressedTime + dt]
    ELSE st

UpdateControl(c, st, dt) ==
    IF Kind(c) = "Button" /\ st.pressed
    THEN IF st.pressedTime + dt >= pressedDuration
         THEN [st EXCEPT !.pressed = FALSE, !.pressedTime = 0]
         ELSE [st EXCEPT !.pressedTime = st.pressedTime + dt]
    ELSE IF Kind(c) = "TextInput"
    THEN IF st.cursorBlinkTime + dt >= cursorBlinkPeriod
         THEN [st EXCEPT !.cursorVisible = ~st.cursorVisible, !.cursorBlinkTime = 0]
         ELSE [st EXCEPT !.cursorBlinkTime = st.cursorBlinkTime + dt]
    ELSE st

\* The buttons CanvasUIMark.updateGamepad dispatches: pressed now and not
\* pressed in the snapshot of the previous poll.
NewlyPressedLevel(pressed, last) == pressed

NewlyPressed(pressed, last) == pressed \ last

\* The loop of updateGamepad over the button indexes, ascending:
\* handleGamepadButton(i) for each index of bs, from state s.
RECURSIVE DispatchAll(_, _)
DispatchAll(s, bs) ==
    IF bs = {} \/ Threw(s.calls) THEN s
    ELSE LET b == CHOOSE i \in bs : \A j \in bs : i <= j
             entered == [s EXCEPT !.calls = @ \o <<Call("handleGamepadButton", 0, b)>>]
         IN  DispatchAll(PadDispatch(entered, b), bs \ {b})

\* CanvasUIMark.updateGamepad: the first connected controller is polled.
updateGamepad(s) ==
    IF pad = <<>> THEN s
    ELSE DispatchAll(s, NewlyPressed(pad[1], lastGamepadButtons))

\* The callbacks the application supplies.
UserCallbacks == {"control.callback", "onEscape", "modal.callback"}

\* One run of the loop closure of CanvasUIMark.start, as the armed callback
\* id: update(deltaTime), that is updateGamepad() and then update over the
\* registered controls, draw(), and the closure armed again.  stops: the
\* application's callbacks call stop() when they run.  An exception thrown
\* by a callback during the poll leaves the closure at once: the rest of
\* update is skipped and the closure is not armed again.
Frame(id, stops) ==
    LET polled == updateGamepad(PadState)
        stopped == stops /\ \E k \in DOMAIN polled.calls :
                               polled.calls[k].op \in UserCallbacks
        threw == Threw(polled.calls)
    IN  /\ id \in armed
        /\ ev' = Ev("frame")
        /\ lastFrameTime' = now
        /\ focusIndex' = polled.focusIndex
        /\ modals' = polled.modals
        /\ ctl' = [c \in AllIds |->
                     IF IndexOfControl(controls, c) > -1 /\ ~threw
                     THEN UpdateControl(c, polled.ctl[c], now - lastFrameTime)
                     ELSE polled.ctl[c]]
        /\ lastGamepadButtons' = IF pad = <<>> \/ threw THEN lastGamepadButtons
                                 ELSE pad[1]
        /\ calls' = IF stopped THEN polled.calls \o <<Call("stop", 0, -1)>>
                    ELSE polled.calls
        /\ armed' = IF threw
                    THEN (IF stopped THEN armed \ {animationFrameId} ELSE armed) \ {id}
                    ELSE IF stopped THEN (armed \ {animationFrameId}) \cup {id}
                    ELSE armed
        /\ animationFrameId' = IF ~threw THEN id
                               ELSE IF stopped THEN 0 ELSE animationFrameId
        /\ UNCHANGED <<controls, toasts, keys, onEscape, timers, now, born,
                       mouse, throws, pad>>

\* The hardware: a controller is connected; one of its buttons goes down or
\* up.
GamepadConnected ==
    /\ pad = <<>>
    /\ pad' = <<{}>>
    /\ UNCHANGED <<controls, focusIndex, modals, toasts, keys, onEscape, ctl,
                   timers, now, armed, animationFrameId, lastFrameTime, born,
                   mouse, throws, lastGamepadButtons, ev, calls>>

ButtonChanges(b) ==
    /\ pad # <<>>
    /\ pad' = <<IF b \in pad[1] THEN pad[1] \ {b} ELSE pad[1] \cup {b}>>
    /\ UNCHANGED <<controls, focusIndex, modals, toasts, keys, onEscape, ctl,
                   timers, now, armed, animationFrameId, lastFrameTime, born,
                   mouse, throws, lastGamepadButtons, ev, calls>>

(***************************************************************************)
(* SpecToast: the state after the constructor (which starts the loop),     *)
(* then toasts shown, timers firing, time passing, and the render loop     *)
(* running, stopped and started again.                                     *)
(***************************************************************************)
NextToast ==
    \/ \E d \in Durations : showToast(d)
    \/ \E t \in timers : TimerFires(t)
    \/ Tick
    \/ start
    \/ stop
    \/ \E id \in armed : Frame(id, FALSE)

SpecToast == Init /\ [][NextToast]_vars

(***************************************************************************)
(* SpecSlider: the application constructs a Slider with any (min, max,     *)
(* value, step), min <= max, registers it, and the Slider, which then has  *)
(* the focus, receives ArrowLeft / ArrowRight, d-pad left / right and      *)
(* clicks along its track.                                                 *)
(***************************************************************************)
SliderConfigs ==
    {NewSlider(mn, mx, v, st) :
        mn \in 0..MaxSliderValue, mx \in 0..MaxSliderValue,
        v \in 0..(MaxSliderValue + 1), st \in 1..MaxStep}

\* Clicks on the Slider, in client coordinates: left of the track, at its
\* start, at 1/4, 3/10, 1/2 and 3/4 of it, at its end, right of it.
SliderPoints ==
    {<<352, 60>>, <<355, 60>>, <<380, 60>>, <<385, 60>>, <<405, 60>>,
     <<430, 60>>, <<455, 60>>, <<458, 60>>}

NextSlider ==
    \/ /\ Idle /\ controls = <<>>
       /\ \E cfg \in SliderConfigs \cup {DocSlider} :
             cfg.min <= cfg.max /\ Register(SliderId, cfg)
    \/ /\ Idle /\ controls # <<>>
       /\ \E key \in {"ArrowLeft", "ArrowRight"} : handleKeyDown(key, FALSE)
    \/ KeyGoesUp
    \/ Idle /\ controls # <<>> /\ \E p \in SliderPoints : handleClick(p[1], p[2])
    \/ Idle /\ controls # <<>> /\ \E b \in {14, 15} : handleGamepadButton(b)

SpecSlider == Init /\ [][NextSlider]_vars

(***************************************************************************)
(* SpecWidgets: the application registers a Button and one Slider, Menu or *)
(* Radio, in either order, a Radio constructed with any selectedIndex in   *)
(* range; no modal is shown.  The controls receive the arrow keys, Enter,  *)
(* Tab, clicks on their items and every controller button.                 *)
(***************************************************************************)
Registered(c) == \E k \in DOMAIN controls : controls[k] = c

\* The constructor arguments of control c that the application varies.
Constructed(c) ==
    IF c \in RadioIds
    THEN {NewList(sel) : sel \in 0..(ItemCount(c) - 1)}
    ELSE {NewFields(c)}

WidgetKeys == {"ArrowUp", "ArrowDown", "ArrowLeft", "ArrowRight", "Enter", "Tab"}

\* Clicks in client coordinates: on the Button, on each item of the Menu, on
\* the edge between its first two items, and the same on the Radio, whose
\* last point is the bottom edge of a Radio of three options.
WidgetPoints ==
    {<<75, 60>>}
    \cup {<<400, 110 + 25 * i>> : i \in 0..(MaxItems - 1)} \cup {<<400, 125>>}
    \cup {<<550, 110 + 25 * i>> : i \in 0..(MaxItems - 1)} \cup {<<550, 125>>, <<550, 175>>}

NextWidgets ==
    \/ /\ Idle /\ Len(controls) < 2
       /\ \E c \in {1} \cup WidgetIds :
             /\ ~Registered(c)
             /\ c \in WidgetIds => \A w \in WidgetIds : ~Registered(w)
             /\ \E st \in Constructed(c) : Register(c, st)
    \/ Idle /\ onEscape = Null /\ SetOnEscape("cb")
    \/ Idle /\ controls # <<>> /\ \E key \in WidgetKeys : handleKeyDown(key, FALSE)
    \/ KeyGoesUp
    \/ Idle /\ controls # <<>> /\ \E p \in WidgetPoints : handleClick(p[1], p[2])
    \/ Idle /\ \E b \in PadButtons : handleGamepadButton(b)

SpecWidgets == Init /\ [][NextWidgets]_vars

(***************************************************************************)
(* SpecLoop: a Button is registered and focused and an escape callback may *)
(* be set; a controller is connected and its buttons go down and up        *)
(* between the ticks of the render loop, which polls it.  The application  *)
(* stops the loop, between ticks or from a callback run by the poll, and   *)
(* starts it again once it has stopped.                                    *)
(***************************************************************************)
LoopButtons == {0, 1, 13}

NextLoop ==
    \/ controls = <<>> /\ addControl(1)
    \/ onEscape = Null /\ SetOnEscape("cb")
    \/ GamepadConnected
    \/ \E b \in LoopButtons : ButtonChanges(b)
    \/ \E id \in armed : \E stops \in BOOLEAN : Frame(id, stops)
    \/ stop
    \/ armed = {} /\ start

SpecLoop == Init /\ [][NextLoop]_vars

(***************************************************************************)
(* SpecSelect: modals with any of the button lists are opened over one or  *)
(* two controls; keys, clicks and controller buttons arrive while a modal  *)
(* is open, and the application moves the coordinator's focus.             *)
(***************************************************************************)
NextSelect ==
    \/ Idle /\ Len(controls) < 2 /\ addControl(Len(controls) + 1)
    \/ Idle /\ \E cfg \in Configs : ShowModal(cfg)
    \/ Idle /\ ModalOpen /\ \E e \in KeyEvents : handleKeyDown(e[1], e[2])
    \/ KeyGoesUp
    \/ Idle /\ ModalOpen /\ \E p \in ModalClientPoints : handleClick(p[1], p[2])
    \/ Idle /\ ModalOpen /\ \E b \in PadButtons : handleGamepadButton(b)
    \/ Idle /\ ModalOpen /\ focusNext
    \/ Idle /\ ModalOpen /\ focusPrevious

SpecSelect == Init /\ [][NextSelect]_vars

(***************************************************************************)
(* SpecDispatch: a control of any class but Menu is registered alone,      *)
(* which gives it the focus, and receives key-downs and the controller     *)
(* buttons 0, 14 and 15.                                                   *)
(***************************************************************************)
DispatchIds == {1, 2, 3, SliderId, TextId} \cup {r \in RadioIds : ItemCount(r) = 2}

DispatchKeys == {"Enter", "ArrowLeft", "ArrowRight", "a"}

DispatchButtons == {0, 14, 15}

NextDispatch ==
    \/ Idle /\ controls = <<>> /\ \E c \in DispatchIds : addControl(c)
    \/ /\ Idle /\ controls # <<>>
       /\ \E key \in DispatchKeys :
             /\ Registered(TextId) /\ key = "a" => Len(ctl[TextId].value) < MaxText
             /\ handleKeyDown(key, FALSE)
    \/ KeyGoesUp
    \/ Idle /\ controls # <<>> /\ \E b \in DispatchButtons : handleGamepadButton(b)

SpecDispatch == Init /\ [][NextDispatch]_vars

(***************************************************************************)
(* SpecThrow: the callbacks the application supplies (of its controls, of  *)
(* its modal actions, onEscape) throw from some point on.  A Button, a     *)
(* Toggle and a Slider are registered, modals are opened, and keys, clicks *)
(* and controller buttons arrive.                                          *)
(***************************************************************************)
ThrowIds == {1, 2, SliderId}

\* Clicks in client coordinates: on the Button alone, on the corner Button
\* and Toggle share, at 3/10 of the Slider's track, on a modal's buttons.
ThrowPoints == {<<75, 55>>, <<150, 75>>, <<385, 60>>} \cup ButtonRowPoints

ThrowButtons == {0, 1, 14, 15}

CallbacksThrow ==
    /\ ~throws
    /\ throws' = TRUE
    /\ UNCHANGED <<controls, focusIndex, modals, toasts, keys, onEscape, ctl,
                   timers, now, armed, animationFrameId, lastFrameTime, born,
                   pad, lastGamepadButtons, mouse, ev, calls>>

\* The Slider of SpecThrow: three values.
SmallSlider == NewSlider(0, 2, 1, 1)

\* The button lists of SpecThrow: Resume / Exit, and Again / CANCEL / Close.
ThrowConfigs == {2, 4}

NextThrow ==
    \/ /\ Idle
       /\ \E c \in ThrowIds :
             /\ CreatedLast(c)
             /\ Register(c, IF c = SliderId THEN SmallSlider ELSE ctl[c])
    \/ Idle /\ onEscape = Null /\ SetOnEscape("cb")
    \/ Idle /\ CallbacksThrow
    \/ Idle /\ modals = <<>> /\ \E cfg \in ThrowConfigs : ShowModal(cfg)
    \/ Idle /\ \E e \in KeyEvents : handleKeyDown(e[1], e[2])
    \/ KeyGoesUp
    \/ Idle /\ \E p \in ThrowPoints : handleClick(p[1], p[2])
    \/ Idle /\ \E b \in ThrowButtons : handleGamepadButton(b)

SpecThrow == Init /\ [][NextThrow]_vars

(***************************************************************************)
(* SpecPointer: controls are registered, a default modal and toasts are    *)
(* shown, and the pointer moves over the canvas while its buttons and the  *)
(* keys go down and up; clicks and key-downs are dispatched in between.    *)
(***************************************************************************)
\* The pointer, in client coordinates: off everything, on control 1, on the
\* corner controls 1 and 2 share.
PointerPoints == {<<0, 0>>, <<75, 55>>, <<150, 75>>}

\* e.button: the main and the secondary button.
PointerButtons == {0, 2}

NextPointer ==
    \/ Idle /\ Len(controls) < 2 /\ addControl(Len(controls) + 1)
    \/ Idle /\ modals = <<>> /\ ShowModal(1)
    \/ Idle /\ timers = {} /\ \E d \in Durations : showToast(d)
    \/ Idle /\ \E key \in {"Enter", "Tab"} : handleKeyDown(key, FALSE)
    \/ KeyGoesUp
    \/ Idle /\ \E p \in PointerPoints : handleClick(p[1], p[2])
    \/ \E p \in PointerPoints : handleMouseMove(p[1], p[2])
    \/ \E b \in PointerButtons : handleMouseDown(b)
    \/ \E b \in PointerButtons : handleMouseUp(b)

SpecPointer == Init /\ [][NextPointer]_vars

(***************************************************************************)
(* SpecExpiry: toasts of different durations are shown, one more than in   *)
(* SpecToast, and expire as time passes; the application dismisses some    *)
(* of them early.                                                          *)
(***************************************************************************)
NextExpiry ==
    \/ \E d \in Durations : ShowToastUpTo(d, MaxToasts + 1)
    \/ \E t \in timers : TimerFires(t)
    \/ Tick
    \/ \E b \in born : DropToast(b.id)

SpecExpiry == Init /\ [][NextExpiry]_vars

(***************************************************************************)
(* SpecButton: a Button is registered and focused; it is clicked, Enter    *)
(* and Space are pressed, and a connected controller's button 0 goes down  *)
(* and up.  The render loop started by the constructor keeps running: the  *)
(* host runs the armed frame callback again and again while time passes.   *)
(* Within the time window of the model an activation leaves room for the   *)
(* pressed duration.                                                       *)
(***************************************************************************)
ButtonPoint == <<75, 60>>

RoomToPress == now + pressedDuration <= MaxTime

NextButton ==
    \/ Idle /\ controls = <<>> /\ addControl(1)
    \/ /\ Idle /\ controls # <<>> /\ RoomToPress
       /\ handleClick(ButtonPoint[1], ButtonPoint[2])
    \/ /\ Idle /\ controls # <<>> /\ RoomToPress
       /\ \E key \in {"Enter", " "} : handleKeyDown(key, FALSE)
    \/ KeyGoesUp
    \/ GamepadConnected
    \/ pad # <<>> /\ (0 \notin pad[1] => RoomToPress) /\ ButtonChanges(0)
    \/ Tick
    \/ \E id \in armed : Frame(id, FALSE)

SpecButton ==
    /\ Init /\ [][NextButton]_vars
    /\ WF_vars(Tick)
    /\ WF_vars(\E id \in armed : Frame(id, FALSE))

(***************************************************************************)
(* SpecText: a TextInput is registered and, focused, receives characters,  *)
(* the editing and cursor keys, a key with Ctrl held, Enter, and clicks.   *)
(* The application stops typing at MaxText characters.                     *)
(***************************************************************************)
TextChars == {"a", "b", " "}

TextKeys ==
    TextChars \cup {"Backspace", "Delete", "ArrowLeft", "ArrowRight", "Home",
                    "End", "Enter", "Ctrl+a"}

\* A click on the TextInput, in client coordinates.
TextPoint == <<400, 260>>

NextText ==
    \/ Idle /\ controls = <<>> /\ addControl(TextId)
    \/ /\ Idle /\ controls # <<>>
       /\ \E key \in TextKeys :
             /\ key \in TextChars => Len(ctl[TextId].value) < MaxText
             /\ handleKeyDown(key, FALSE)
    \/ KeyGoesUp
    \/ Idle /\ controls # <<>> /\ handleClick(TextPoint[1], TextPoint[2])

SpecText == Init /\ [][NextText]_vars

(***************************************************************************)
(* Properties.                                                             *)
(***************************************************************************)
\* The calls of kind op among cs, in order.
CallsOf(cs, op) == SelectSeq(cs, LAMBDA c : c.op = op)

ControlOps == {"control.handleClick", "control.handleKeyDown",
               "control.activate", "control.callback",
               "control.handleGamepadAxis", "control.handleGamepadLeft",
               "control.handleGamepadRight"}
Front(s) == SubSeq(s, 1, Len(s) - 1)

ModalEntryOps == {"modal.handleKeyDown", "modal.handleClick",
                  "modal.handleGamepadButton"}
InputEvents == {"keydown", "click", "button"}

\* The first position of a call of kind op in cs, 0 when there is none.
FirstCall(cs, op) ==
    IF \E k \in DOMAIN cs : cs[k].op = op
    THEN CHOOSE k \in DOMAIN cs : cs[k].op = op /\ \A j \in 1..(k - 1) : cs[j].op # op
    ELSE 0


\* C1: the focus index is -1 when no control is registered and lies in
\* 0..len-1 otherwise, after any sequence of calls and events.
C1_FocusInRange ==
    IF Len(controls) = 0
    THEN focusIndex = -1
    ELSE focusIndex >= 0 /\ focusIndex <= Len(controls) - 1

\* removeControl has just clamped the focus index to the new last control.
C1_Witness ==
    /\ ev.type = "removeControl"
    /\ Len(controls) = 2
    /\ focusIndex = 1

\* C2: while a modal is open, a key-down (Tab and Escape included), a click
\* or a controller button enters the topmost modal's handler and nothing
\* else: no control handler or callback runs, the escape callback does not
\* run, and the focus index and the controls' fields stay as they are.
C2_ModalExclusive ==
    [][(Len(modals) > 0 /\ ev'.type \in InputEvents) =>
          /\ focusIndex' = focusIndex
          /\ ctl' = ctl
          /\ controls' = controls
          /\ Len(calls') >= 1
          /\ calls'[1].op \in ModalEntryOps
          /\ calls'[1].tgt = Len(modals)
          /\ \A k \in DOMAIN calls' :
                /\ calls'[k].op \notin ControlOps \cup {"onEscape"}
                /\ calls'[k].op \in ModalEntryOps => k = 1]_vars

\* Tab went to the open modal although two controls are registered and an
\* escape callback is set.
C2_Witness ==
    /\ ev.type = "keydown"
    /\ keys = {"Tab"}
    /\ Len(modals) > 0
    /\ Len(controls) >= 2
    /\ onEscape # Null
    /\ calls = <<Call("modal.handleKeyDown", Len(modals), -1)>>

\* C3: with no modal open, a click goes to the last-added control among
\* those that contain the point: the focus index becomes its index, its
\* click handler runs once and no other control's does; a click that no
\* control contains runs nothing and leaves the focus index alone.
C3_ClickLastAdded ==
    [][(Len(modals) = 0 /\ ev'.type = "click") =>
          LET over == {k \in DOMAIN controls :
                          containsPoint(controls[k], ev'.x, ev'.y)}
          IN  IF over = {}
              THEN calls' = <<>> /\ focusIndex' = focusIndex /\ ctl' = ctl
              ELSE \E k \in over :
                     /\ \A j \in over : j <= k
                     /\ focusIndex' = k - 1
                     /\ CallsOf(calls', "control.handleClick")
                           = <<Call("control.handleClick", controls[k], -1)>>
                     /\ \A n \in DOMAIN calls' : calls'[n].tgt = controls[k]
                     /\ \A c \in ControlIds : c # controls[k] => ctl'[c] = ctl[c]]_vars

\* A click on the corner that the Button and the Toggle share, the Toggle
\* added last and the Button focused: the Toggle took it.
C3_Witness ==
    /\ ev = [type |-> "click", x |-> 300, y |-> 150]
    /\ controls = <<1, 2>>
    /\ modals = <<>>
    /\ focusIndex = 1
    /\ ctl[2].value
    /\ CallsOf(calls, "control.handleClick") = <<Call("control.handleClick", 2, -1)>>

\* n applications of focusNext to focus index i of n controls.
C4_NextTimes(i, n, times) ==
    LET F[k \in 0..times] == IF k = 0 THEN i ELSE FocusNextIndex(F[k - 1], n)
    IN  F[times]

\* C4: with n >= 1 controls and focus index i, focusNext sets the focus
\* index to (i+1) mod n and focusPrevious to (i-1+n) mod n; n focusNext in a
\* row lead back to i, and focusPrevious undoes focusNext.
C4_FocusWraps ==
    [][Len(controls) > 0 =>
          LET n == Len(controls)
              i == focusIndex
          IN  /\ ev'.type = "focusNext" => focusIndex' = (i + 1) % n
              /\ ev'.type = "focusPrevious" => focusIndex' = (i - 1 + n) % n
              /\ C4_NextTimes(i, n, n) = i
              /\ FocusPreviousIndex(FocusNextIndex(i, n), n) = i]_vars

\* focusNext has wrapped from the last of three controls to the first.
C4_Witness ==
    /\ ev.type = "focusNext"
    /\ Len(controls) = 3
    /\ focusIndex = 0

\* C5: with no modal open, Tab moves the focus to the next control and
\* Shift+Tab to the previous one, with wraparound, and reaches no control's
\* handler; a Button then a Toggle registered have focus index 0, Tab makes
\* it 1 and Shift+Tab makes it 0 again.
C5_TabMovesFocus ==
    [][/\ \A shift \in BOOLEAN :
             (Len(modals) = 0 /\ handleKeyDown("Tab", shift)) =>
                LET n == Len(controls)
                IN  /\ calls' = <<>>
                    /\ ctl' = ctl
                    /\ focusIndex' = IF n = 0 THEN focusIndex
                                     ELSE IF shift THEN (focusIndex - 1 + n) % n
                                     ELSE (focusIndex + 1) % n
       /\ (controls = <<1>> /\ controls' = <<1, 2>>) => focusIndex' = 0
       /\ (controls = <<1, 2>> /\ Len(modals) = 0 /\ focusIndex = 0
             /\ handleKeyDown("Tab", FALSE)) => focusIndex' = 1
       /\ (controls = <<1, 2>> /\ Len(modals) = 0 /\ focusIndex = 1
             /\ handleKeyDown("Tab", TRUE)) => focusIndex' = 0]_vars

\* Tab has moved the focus from the Button to the Toggle.
C5_Witness ==
    /\ ev.type = "keydown"
    /\ keys = {"Tab"}
    /\ controls = <<1, 2>>
    /\ modals = <<>>
    /\ focusIndex = 1
    /\ calls = <<>>

\* The labels that Escape treats as the cancel action, compared in lower case.
C6_CancelWords ==
    { <<"e", "x", "i", "t">>, <<"c", "l", "o", "s", "e">>,
      <<"c", "a", "n", "c", "e", "l">> }

\* The button indexes of modal m whose label is a cancel word ignoring case.
C6_Matching(m) ==
    {i \in 0..(Len(Buttons(m)) - 1) :
        toLowerCase(Buttons(m)[i + 1].label) \in C6_CancelWords}

\* C6: Escape on the active modal invokes the callback of the action whose
\* label is exit, close or cancel ignoring case (the first such action in
\* list order, when it has a callback) and no other callback, and closes the
\* modal; with no such label the modal is closed and no callback is invoked.
\* A modal the callback itself opens is on top afterwards.
C6_EscapeOnModal ==
    [][(Len(modals) > 0 /\ ev'.type = "keydown" /\ "Escape" \in keys') =>
          LET h == Len(modals)
              bs == Buttons(modals[h])
              match == C6_Matching(modals[h])
              first == CHOOSE i \in match : \A j \in match : i <= j
          IN  /\ modals' = IF match # {} /\ bs[first + 1].cb = "show"
                            THEN showModal(Front(modals), 1)
                            ELSE Front(modals)
              /\ CallsOf(calls', "modal.callback") =
                    IF match = {} \/ bs[first + 1].cb = "none"
                    THEN <<>>
                    ELSE <<Call("modal.callback", h, first)>>]_vars

\* Escape on the modal [Resume, Exit(cb)]: cb was invoked, then the modal
\* was closed.
C6_Witness ==
    /\ ev.type = "keydown"
    /\ keys = {"Escape"}
    /\ calls = <<Call("modal.handleKeyDown", Len(modals) + 1, -1),
                 Call("modal.callback", Len(modals) + 1, 1),
                 Call("closeModal", Len(modals) + 1, -1)>>

\* Some modal of the stack is not on the stack after the step.
C7_Left ==
    \E k \in DOMAIN modals :
        k \notin DOMAIN modals' \/ modals'[k].cfg # modals[k].cfg

C8_Outside(x, y) ==
    \/ x < ModalX \/ x > ModalX + ModalWidth
    \/ y < ModalY \/ y > ModalY + ModalHeight

\* C8: while a modal is shown, a click outside the modal closes it.
C8_ClickOutsideCloses ==
    [][(Len(modals) > 0 /\ ev'.type = "click" /\ C8_Outside(ev'.x, ev'.y)) =>
          modals' = Front(modals)]_vars

\* The action that the step activates on the active modal: the selected
\* button for Enter and Space, the button under the click; -1 for any other
\* step.
C9_Activated ==
    IF Len(modals) = 0 THEN -1
    ELSE IF ev'.type = "keydown" /\ keys' \cap {"Enter", " "} # {}
    THEN modals[Len(modals)].sel
    ELSE IF ev'.type = "click"
    THEN ModalHitIndex(modals[Len(modals)], ev'.x, ev'.y)
    ELSE -1

\* C9: Enter or Space on the active modal, or a click on one of its
\* buttons, invokes the callback of the selected (clicked) action once and
\* no other callback; the callback runs before the modal is removed, and
\* after the dispatch the modal is off the stack (a modal the callback opened
\* has taken its place).
C9_InvokeThenClose ==
    [][C9_Activated >= 0 =>
          LET h == Len(modals)
              i == C9_Activated
              cb == Buttons(modals[h])[i + 1].cb
          IN  /\ CallsOf(calls', "modal.callback") =
                    IF cb = "none" THEN <<>> ELSE <<Call("modal.callback", h, i)>>
              /\ FirstCall(calls', "closeModal") > FirstCall(calls', "modal.callback")
              /\ modals' = IF cb = "show"
                           THEN Append(Front(modals), [cfg |-> 1, sel |-> 0])
                           ELSE Front(modals)]_vars

\* Enter on a modal whose second action was selected: its callback, then the
\* close.
C9_Witness ==
    /\ ev.type = "keydown"
    /\ keys = {"Enter"}
    /\ calls = <<Call("modal.handleKeyDown", Len(modals) + 1, -1),
                 Call("modal.callback", Len(modals) + 1, 1),
                 Call("closeModal", Len(modals) + 1, -1)>>

\* Toast id is in the live list.
C10_Live(id) == \E k \in DOMAIN toasts : toasts[k] = id

\* C10: a toast shown with duration d is in the toast list at every time
\* before d has elapsed since showToast and in it at no time after, whether
\* or not a frame callback of the render loop is armed.
C10_ToastLifetime ==
    \A b \in born :
        /\ now < b.at + b.duration => C10_Live(b.id)
        /\ now > b.at + b.duration => ~C10_Live(b.id)

\* With the render loop stopped, one toast has expired and left the list
\* while a later one is still in it.
C10_Witness ==
    /\ armed = {}
    /\ animationFrameId = 0
    /\ \E b \in born : now > b.at + b.duration /\ ~C10_Live(b.id)
                       /\ b.at > 0
    /\ \E b \in born : now < b.at + b.duration /\ C10_Live(b.id)

\* The step hands the focused Slider a Left adjust (dir -1) or a Right
\* adjust (dir 1): the arrow key, or the d-pad button.
C13_Adjusts(dir) ==
    /\ controls = <<SliderId>>
    /\ \/ handleKeyDown(IF dir < 0 THEN "ArrowLeft" ELSE "ArrowRight", FALSE)
       \/ handleGamepadButton(IF dir < 0 THEN 14 ELSE 15)

\* C11: after a directional adjust of a Slider, whatever its starting
\* value, step and min <= max, min <= value <= max and value - min is a
\* multiple of step.
C11_SliderOnGrid ==
    [][\A dir \in {-1, 1} :
          C13_Adjusts(dir) =>
             /\ ctl'[SliderId].min <= ctl'[SliderId].value
             /\ ctl'[SliderId].value <= ctl'[SliderId].max
             /\ (ctl'[SliderId].value - ctl'[SliderId].min) % ctl'[SliderId].step = 0]_vars

\* The fraction pn / sliderWidth of the track at which the click of the
\* step lies.
C12_Pn(x) == Max(0, Min(Rect(SliderId).width - 2 * padding,
                        x - (Rect(SliderId).x + padding)))

\* clamp(round((raw - min) / step) * step + min, min, max), with raw - min =
\* pn * (max - min) / sliderWidth.
C12_Snapped(st, x) ==
    LET w == Rect(SliderId).width - 2 * padding
        k == (2 * C12_Pn(x) * (st.max - st.min) + w * st.step) \div (2 * w * st.step)
    IN  Max(st.min, Min(st.max, k * st.step + st.min))

\* C12: a click on a Slider's track sets its value to
\* clamp(round((raw - min) / step) * step + min, min, max).
C12_ClickSnaps ==
    [][(controls = <<SliderId>> /\ ev'.type = "click") =>
          ctl'[SliderId].value = C12_Snapped(ctl[SliderId], ev'.x)]_vars

\* C13: a Left adjust of a Slider sets value to max(min, value - step) and a
\* Right adjust to min(max, value + step), by the arrow keys and by the
\* d-pad alike, with the callback called once with the new value; three Left
\* adjusts take the Slider (0, 100, value 50, step 5) to 35.
C13_StepAndClamp ==
    [][/\ \A dir \in {-1, 1} :
             C13_Adjusts(dir) =>
                LET st == ctl[SliderId]
                    v == IF dir < 0
                         THEN (IF st.value - st.step >= st.min
                               THEN st.value - st.step ELSE st.min)
                         ELSE (IF st.value + st.step <= st.max
                               THEN st.value + st.step ELSE st.max)
                IN  /\ ctl'[SliderId] = [st EXCEPT !.value = v]
                    /\ CallsOf(calls', "control.callback")
                          = <<Call("control.callback", SliderId, v)>>
                    /\ focusIndex' = focusIndex
       /\ LET s1 == SliderAdjust(SliderId, DocSlider, -1).st
              s2 == SliderAdjust(SliderId, s1, -1).st
              s3 == SliderAdjust(SliderId, s2, -1).st
          IN  s3.value = 35
       /\ (ctl[SliderId] = [DocSlider EXCEPT !.manager = "this", !.value = 40]
             /\ C13_Adjusts(-1)) => ctl'[SliderId].value = 35]_vars

\* The documentation's Slider, three Left adjusts after its registration
\* with value 50, the last by the d-pad.
C13_Witness ==
    /\ controls = <<SliderId>>
    /\ ctl[SliderId] = [DocSlider EXCEPT !.manager = "this", !.value = 35]
    /\ ev.type = "button"
    /\ calls = <<Call("control.handleGamepadAxis", SliderId, -1),
                 Call("control.callback", SliderId, 35)>>

ListIds == MenuIds \cup RadioIds

\* The step moves the selection of the focused Menu or Radio w forward
\* (d = 1) or backward (d = -1): an arrow key, or d-pad right / left.
C14_Moves(w, d) ==
    /\ HasFocus /\ Focused = w /\ modals = <<>>
    /\ \/ /\ ev'.type = "keydown"
          /\ keys' \cap (IF d > 0 THEN {"ArrowDown", "ArrowRight"}
                         ELSE {"ArrowUp", "ArrowLeft"}) # {}
       \/ /\ ev'.type = "button"
          /\ calls' # <<>>
          /\ calls'[1] = Call(IF d > 0 THEN "control.handleGamepadRight"
                              ELSE "control.handleGamepadLeft", w, -1)

\* C14: the selected index of a registered Menu or Radio stays within
\* 0..itemCount-1 over arrow keys, d-pad left / right and item clicks; a
\* forward move goes to the next item and from the last item to item 0, a
\* backward move to the previous item and from item 0 to the last.
C14_SelectionWraps ==
    [][\A w \in ListIds :
          (\E k \in DOMAIN controls' : controls'[k] = w) =>
             /\ ctl'[w].selectedIndex \in 0..(ItemCount(w) - 1)
             /\ C14_Moves(w, 1) =>
                   ctl'[w].selectedIndex =
                      IF ctl[w].selectedIndex = ItemCount(w) - 1 THEN 0
                      ELSE ctl[w].selectedIndex + 1
             /\ C14_Moves(w, -1) =>
                   ctl'[w].selectedIndex =
                      IF ctl[w].selectedIndex = 0 THEN ItemCount(w) - 1
                      ELSE ctl[w].selectedIndex - 1]_vars

\* A Radio of three or more options whose selection has just wrapped from
\* the last option to option 0 by d-pad right.
C14_Witness ==
    \E w \in RadioIds :
       /\ ItemCount(w) >= 3
       /\ Registered(w)
       /\ ev.type = "button"
       /\ calls = <<Call("control.handleGamepadRight", w, -1),
                    RadioCallback(w, 0)>>
       /\ ctl[w].selectedIndex = 0

\* What a press of controller button b does with no modal active.
C19_Expected(b) ==
    LET f == Focused
        n == Len(controls)
    IN  CASE b = 0 ->
               /\ focusIndex' = focusIndex
               /\ IF HasFocus /\ Kind(f) \in {"Button", "Toggle", "Menu"}
                  THEN /\ calls'[1] = Call("control.activate", f, -1)
                       /\ CallsOf(calls', "control.callback")
                             = <<Call("control.callback", f,
                                      IF Kind(f) = "Menu" THEN ctl[f].selectedIndex
                                      ELSE -1)>>
                  ELSE calls' = <<>> /\ ctl' = ctl
          [] b = 1 ->
               /\ calls' = IF onEscape # Null THEN <<Call("onEscape", 0, -1)>>
                           ELSE <<>>
               /\ focusIndex' = focusIndex /\ ctl' = ctl
          [] b = 12 ->
               /\ focusIndex' = IF n = 0 THEN focusIndex
                                ELSE IF focusIndex <= 0 THEN n - 1
                                ELSE focusIndex - 1
               /\ calls' = <<>> /\ ctl' = ctl
          [] b = 13 ->
               /\ focusIndex' = IF n = 0 THEN focusIndex
                                ELSE IF focusIndex = n - 1 THEN 0
                                ELSE focusIndex + 1
               /\ calls' = <<>> /\ ctl' = ctl
          [] b \in {14, 15} ->
               /\ focusIndex' = focusIndex
               /\ IF HasFocus /\ Kind(f) = "Slider"
                  THEN /\ calls'[1] = Call("control.handleGamepadAxis", f,
                                           IF b = 14 THEN -1 ELSE 1)
                       /\ ctl'[f].value =
                             IF b = 14 THEN Max(ctl[f].min, ctl[f].value - ctl[f].step)
                             ELSE Min(ctl[f].max, ctl[f].value + ctl[f].step)
                  ELSE IF HasFocus /\ Kind(f) \in {"Menu", "Radio"}
                  THEN /\ calls'[1] = Call(IF b = 14 THEN "control.handleGamepadLeft"
                                           ELSE "control.handleGamepadRight", f, -1)
                       /\ ctl'[f].selectedIndex =
                             (ctl[f].selectedIndex + (IF b = 14 THEN ItemCount(f) - 1 ELSE 1))
                                % ItemCount(f)
                  ELSE calls' = <<>> /\ ctl' = ctl
          [] OTHER ->
               /\ calls' = <<>> /\ ctl' = ctl /\ focusIndex' = focusIndex

C20_DpadMovesSelection ==
    [][\A w \in ListIds :
          (HasFocus /\ Focused = w /\ modals = <<>>) =>
             /\ handleGamepadButton(13) =>
                   ctl'[w].selectedIndex = (ctl[w].selectedIndex + 1) % ItemCount(w)
             /\ handleGamepadButton(12) =>
                   ctl'[w].selectedIndex =
                      (ctl[w].selectedIndex + ItemCount(w) - 1) % ItemCount(w)]_vars

\* C15: a Panel never receives focus: the control at the focus index is
\* never a Panel.
C15_PanelNeverFocused == HasFocus => Kind(Focused) # "Panel"

\* C16: a control that is not in the control list has no back-reference
\* (manager) to the coordinator: registration sets it, removal clears it.
C16_ManagerCleared ==
    \A c \in AllIds : ~Registered(c) => ctl[c].manager = Null

\* stop() has been called in the step that led to this state: by the
\* application directly, or by a callback that ran inside the tick.
C17_StopCalled ==
    \/ ev.type = "stop"
    \/ ev.type = "frame" /\ \E k \in DOMAIN calls : calls[k].op = "stop"

\* C17: once stop() has been called, between ticks or from a callback
\* inside a tick, no per-frame callback is left armed, so that no tick runs
\* until start() is called; and start() arms one again.
C17_StopHalts ==
    /\ C17_StopCalled => armed = {}
    /\ ev.type = "start" => armed # {}

\* The button indexes the tick that led to this state dispatched.
C18_Dispatched(cs) ==
    {cs[k].arg : k \in {j \in DOMAIN cs : cs[j].op = "handleGamepadButton"}}

\* C18: a poll dispatches button i exactly when i is pressed in this poll
\* and was not in the previous poll's snapshot (empty at first), once, and
\* takes this poll's state as the new snapshot; so a held button is not
\* dispatched again until a poll has seen it released.
C18_EdgeTriggered ==
    [][(\E id \in armed : \E stops \in BOOLEAN : Frame(id, stops)) =>
          IF pad = <<>>
          THEN C18_Dispatched(calls') = {} /\ lastGamepadButtons' = lastGamepadButtons
          ELSE /\ \A b \in PadButtons :
                     b \in C18_Dispatched(calls')
                        <=> (b \in pad[1] /\ b \notin lastGamepadButtons)
               /\ Len(CallsOf(calls', "handleGamepadButton"))
                     = Cardinality(C18_Dispatched(calls'))
               /\ lastGamepadButtons' = pad[1]]_vars

\* After a poll: button 0, held since an earlier poll, was not dispatched
\* again, and button 13, newly pressed, was.
C18_Witness ==
    /\ ev.type = "frame"
    /\ pad = <<{0, 13}>>
    /\ lastGamepadButtons = {0, 13}
    /\ C18_Dispatched(calls) = {13}

\* C21: with no modal active, an Escape key-down calls the escape callback
\* exactly once when one is set and calls nothing when none is set; the key
\* is not passed to the focused control and the focus index is unchanged.
C21_EscapeNoModal ==
    [][(ev'.type = "keydown" /\ "Escape" \in keys' /\ modals = <<>>) =>
          /\ calls' = IF onEscape = Null THEN <<>>
                      ELSE <<Call("onEscape", 0, -1)>>
          /\ focusIndex' = focusIndex
          /\ ctl' = ctl
          /\ controls' = controls
          /\ modals' = <<>>]_vars

\* Escape has just called the escape callback while a control had the
\* focus.
C21_Witness ==
    /\ ev.type = "keydown" /\ "Escape" \in keys
    /\ HasFocus /\ HasHandleKeyDown(Focused)
    /\ calls = <<Call("onEscape", 0, -1)>>

\* The step activates the single action of the top modal, or presses
\* Escape on it: Enter or Space, a click on the action, controller button 0
\* or 1.
C22_Activates ==
    \/ ev'.type = "keydown" /\ keys' \cap {"Enter", " ", "Escape"} # {}
    \/ ev'.type = "click" /\ ModalButtonHit(1, 0, ev'.x, ev'.y)
    \/ /\ ev'.type = "button"
       /\ \E b \in {0, 1} :
             calls'[1] = Call("modal.handleGamepadButton", Len(modals), b)

\* C22: a modal opened with an empty action list has one action, labelled
\* OK; Enter, Space, a click on it, controller button 0 and Escape remove
\* that modal from the stack and no other.
C22_DefaultOk ==
    [][(modals # <<>> /\ ButtonSets[modals[Len(modals)].cfg] = <<>>) =>
          /\ Len(Buttons(modals[Len(modals)])) = 1
          /\ Buttons(modals[Len(modals)])[1].label = <<"O", "K">>
          /\ C22_Activates => modals' = SubSeq(modals, 1, Len(modals) - 1)]_vars

\* Enter on a default modal shown over another modal: its OK callback
\* closed it, the close() that follows found it closed, and the other
\* modal is still open.
C22_Witness ==
    /\ ev.type = "keydown" /\ "Enter" \in keys
    /\ Len(modals) = 1
    /\ calls = <<Call("modal.handleKeyDown", 2, -1), Call("modal.callback", 2, 0),
                 Call("closeModal", 2, -1), Call("closeModal", 2, -1)>>

\* C23: showModal puts the new modal on top of the stack; input goes to the
\* topmost modal; closing a modal through its handle removes exactly that
\* modal, wherever it is, so that closing the top one makes the modal shown
\* before it the target; closing a closed modal changes nothing.
C23_StackDiscipline ==
    [][/\ \A cfg \in Configs :
             ShowModal(cfg) =>
                /\ Len(modals') = Len(modals) + 1
                /\ SubSeq(modals', 1, Len(modals)) = modals
                /\ modals'[Len(modals')] = [cfg |-> cfg, sel |-> 0]
       /\ \A h \in Handles :
             CloseModal(h) =>
                modals' = IF h >= 1 /\ h <= Len(modals)
                          THEN SubSeq(modals, 1, h - 1)
                                  \o SubSeq(modals, h + 1, Len(modals))
                          ELSE modals
       /\ (modals # <<>> /\ ev'.type \in InputEvents) =>
             /\ calls' # <<>>
             /\ calls'[1].op \in ModalEntryOps
             /\ calls'[1].tgt = Len(modals)
             /\ \A k \in 1..(Len(modals) - 1) : modals'[k] = modals[k]]_vars

\* Two modals are open and an arrow key has just gone to the one shown
\* last, whose selected action moved; the one below is as it was shown.
C23_Witness ==
    /\ ev.type = "keydown"
    /\ modals = <<[cfg |-> 2, sel |-> 0], [cfg |-> 3, sel |-> 1]>>
    /\ calls = <<Call("modal.handleKeyDown", 2, -1)>>

\* C24: addControl appends the control at the end of the list, sets the
\* focus index to 0 when the control is the first of the list and leaves
\* the focus index unchanged otherwise.
C24_AddAppends ==
    [][\A c \in ControlIds :
          addControl(c) =>
             /\ Len(controls') = Len(controls) + 1
             /\ SubSeq(controls', 1, Len(controls)) = controls
             /\ controls'[Len(controls')] = c
             /\ focusIndex' = IF controls = <<>> THEN 0 ELSE focusIndex]_vars

\* A third control has just been appended while the second had the focus.
C24_Witness ==
    /\ ev.type = "addControl"
    /\ Len(controls) = 3
    /\ focusIndex = 1

\* C25: removeControl(c) of a registered control removes exactly c, keeps
\* the order of the others and sets the focus index to length - 1 of the
\* new list when it was beyond it (-1 for the empty list), and leaves it
\* otherwise; of an unregistered control it changes neither list nor focus.
C25_RemoveExact ==
    [][\A c \in ControlIds :
          removeControl(c) =>
             IF \E k \in DOMAIN controls : controls[k] = c
             THEN /\ controls' = SelectSeq(controls, LAMBDA d : d # c)
                  /\ Len(controls') = Len(controls) - 1
                  /\ focusIndex' = IF focusIndex > Len(controls') - 1
                                   THEN Len(controls') - 1
                                   ELSE focusIndex
             ELSE controls' = controls /\ focusIndex' = focusIndex]_vars

\* The first of three controls has just been removed: the other two are
\* left in order and the focus index is on the new last position.
C25_Witness ==
    /\ ev.type = "removeControl"
    /\ Len(controls) = 2 /\ controls[1] = 2
    /\ focusIndex = 1

\* The step activates Toggle c: a click on it, Enter or Space while it is
\* focused, controller button 0 while it is focused.
C26_Activated(c) ==
    /\ calls' # <<>>
    /\ calls'[1].tgt = c
    /\ \/ calls'[1].op \in {"control.handleClick", "control.activate"}
       \/ /\ calls'[1].op = "control.handleKeyDown"
          /\ keys' \cap {"Enter", " "} # {}

\* C26: every activation of a Toggle flips its value and calls its callback
\* exactly once, with the new value; a second activation restores the
\* value.
C26_ToggleFlips ==
    [][\A c \in ControlIds :
          (Kind(c) = "Toggle" /\ C26_Activated(c)) =>
             /\ ctl'[c].value = ~ctl[c].value
             /\ CallsOf(calls', "control.callback")
                   = <<Call("control.callback", c, IF ctl[c].value THEN 0 ELSE 1)>>
             /\ Activate(c, ctl'[c]).st.value = ctl[c].value]_vars

\* A Toggle activated by controller button 0 is off again: its callback
\* was called with false.
C26_Witness ==
    \E c \in ControlIds :
       /\ Kind(c) = "Toggle"
       /\ ev.type = "button"
       /\ calls = <<Call("control.activate", c, -1), Call("control.callback", c, 0)>>
       /\ ctl[c].value = FALSE

\* C30: while the control list is empty, focusNext, focusPrevious, Tab,
\* Shift+Tab, controller d-pad up / down and every other key-down, click and
\* controller button leave the focus index at -1 and reach no control.
C30_EmptyListNoOp ==
    [][(controls = <<>> /\ controls' = <<>>) =>
          /\ focusIndex = -1
          /\ focusIndex' = -1
          /\ \A k \in DOMAIN calls' : calls'[k].op \notin ControlOps
          /\ ctl' = ctl]_vars

\* focusPrevious has just been called on the empty list.
C30_Witness ==
    /\ ev.type = "focusPrevious"
    /\ controls = <<>>
    /\ focusIndex = -1

\* The step is a key-down of key, delivered to the focused TextInput.
C28_Key(key) ==
    /\ ev'.type = "keydown"
    /\ keys' = {key}
    /\ calls' = <<Call("control.handleKeyDown", TextId, -1)>>

\* C28: the cursor of a TextInput stays within 0..length(value) over typed
\* characters, Backspace, Delete, ArrowLeft, ArrowRight, Home, End and
\* clicks; ArrowLeft and Backspace at 0, ArrowRight and Delete at the end
\* change neither value nor cursor.
C28_CursorInRange ==
    [][LET v == ctl[TextId].value
           p == ctl[TextId].cursorPos
           same == /\ ctl'[TextId].value = v
                   /\ ctl'[TextId].cursorPos = p
       IN  /\ ctl'[TextId].cursorPos >= 0
           /\ ctl'[TextId].cursorPos <= Len(ctl'[TextId].value)
           /\ (p = 0 /\ (C28_Key("ArrowLeft") \/ C28_Key("Backspace"))) => same
           /\ (p = Len(v) /\ (C28_Key("ArrowRight") \/ C28_Key("Delete"))) => same]_vars

\* ArrowRight has just been pressed with the cursor at the end of a text of
\* MaxText characters.
C28_Witness ==
    /\ ev.type = "keydown" /\ keys = {"ArrowRight"}
    /\ Len(ctl[TextId].value) >= 3
    /\ ctl[TextId].cursorPos = Len(ctl[TextId].value)

\* C29: a printable character key without ctrl / meta inserts the character
\* at the cursor of the focused TextInput and advances the cursor by one; a
\* Backspace right after it restores the value and the cursor position.
C29_InsertThenBackspace ==
    [][\A ch \in TextChars :
          (controls = <<TextId>> /\ handleKeyDown(ch, FALSE)) =>
             LET v == ctl[TextId].value
                 p == ctl[TextId].cursorPos
                 back == ControlKeyDown(TextId, ctl'[TextId], "Backspace").st
             IN  /\ ctl'[TextId].value
                       = SubSeq(v, 1, p) \o <<ch>> \o SubSeq(v, p + 1, Len(v))
                 /\ ctl'[TextId].cursorPos = p + 1
                 /\ back.value = v
                 /\ back.cursorPos = p]_vars

\* "b" has just been typed between the two characters of "aa".
C29_Witness ==
    /\ ev.type = "keydown" /\ keys = {"b"}
    /\ ctl[TextId].value = <<"a", "b", "a">>
    /\ ctl[TextId].cursorPos = 2

\* The step runs code of the program: neither time passing nor the
\* controller changing.
C27_Runs == now' = now /\ pad' = pad

\* The step is a tick of the render loop.
C27_Frame == C27_Runs /\ ev'.type = "frame"

\* The poll of the tick has activated Button 1.
C27_PollActivates ==
    /\ C27_Frame
    /\ \E k \in DOMAIN calls' : calls'[k] = Call("control.activate", 1, -1)

\* What a tick's update(deltaTime) leaves of a pressed Button whose
\* accumulated time is t.
C27_AfterUpdate(t, dt) ==
    IF t + dt >= pressedDuration THEN [pressed |-> FALSE, pressedTime |-> 0]
    ELSE [pressed |-> TRUE, pressedTime |-> t + dt]

C27_Step ==
    LET dt == now - lastFrameTime
        b == [pressed |-> ctl[1].pressed, pressedTime |-> ctl[1].pressedTime]
        b2 == [pressed |-> ctl'[1].pressed, pressedTime |-> ctl'[1].pressedTime]
        once == CallsOf(calls', "control.callback")
                   = <<Call("control.callback", 1, -1)>>
    IN  /\ (C27_Runs /\ ev'.type \in {"click", "keydown"} /\ C26_Activated(1)) =>
              b2 = [pressed |-> TRUE, pressedTime |-> 0] /\ once
        /\ C27_PollActivates => b2 = C27_AfterUpdate(0, dt) /\ once
        /\ (C27_Frame /\ ~C27_PollActivates /\ b.pressed) =>
              b2 = C27_AfterUpdate(b.pressedTime, dt)
        /\ (b.pressed /\ ~b2.pressed) => C27_Frame

\* C27: activating a Button by click, Enter / Space or controller button 0
\* calls its callback once and sets pressed with no time accumulated,
\* whether or not it was pressed already; pressed then stays set over every
\* step until a tick of the render loop whose update brings the deltas
\* accumulated since the last activation to 200 ms, which clears it; and
\* with the render loop running a pressed Button is eventually unpressed.
C27_PressedClears ==
    /\ [][C27_Step]_vars
    /\ ctl[1].pressed ~> ~ctl[1].pressed

\* A pressed Button with time accumulated has just been clicked again: its
\* duration starts over.
C27_Witness ==
    /\ ev.type = "click"
    /\ ctl[1].pressed /\ ctl[1].pressedTime = 0
    /\ now > lastFrameTime /\ lastFrameTime > 0
    /\ calls = <<Call("control.handleClick", 1, -1), Call("control.callback", 1, -1)>>

\* The key whose handling a controller button is documented to match.
C31_KeyFor(b) ==
    CASE b = 0 -> "Enter" [] b = 1 -> "Escape"
      [] b = 14 -> "ArrowLeft" [] b = 15 -> "ArrowRight"
      [] OTHER -> "none"

\* C31: with a modal open, controller button 0 has the effect of Enter,
\* button 1 that of Escape, buttons 14 / 15 that of ArrowLeft / ArrowRight
\* on the topmost modal (same callbacks and closes, same selectedButton and
\* stack); every other button changes nothing; the coordinator's focus and
\* the controls are left alone.
C31_PadLikeKeys ==
    [][(ModalOpen /\ ev'.type = "button") =>
          LET b == calls'[1].arg
              k == ModalHandleKeyDown(Len(modals), C31_KeyFor(b), modals)
          IN  /\ calls'[1] = Call("modal.handleGamepadButton", Len(modals), b)
              /\ modals' = k.mods
              /\ Tail(calls') = k.calls
              /\ b \notin {0, 1, 14, 15} => modals' = modals /\ Tail(calls') = <<>>
              /\ UNCHANGED <<focusIndex, ctl, controls>>]_vars

\* Controller button 1 on a Resume / Exit modal has run the Exit callback
\* and closed the modal.
C31_Witness ==
    /\ ev.type = "button"
    /\ modals = <<>>
    /\ calls = <<Call("modal.handleGamepadButton", 1, 1),
                 Call("modal.callback", 1, 1), Call("closeModal", 1, -1)>>

\* The step opens or closes a modal.
C32_StackChanges ==
    \/ ev'.type \in {"showModal", "closeModal"}
    \/ \E k \in DOMAIN calls' : calls'[k].op \in {"showModal", "closeModal"}

\* The direction of the step, when it is ArrowLeft / ArrowRight or
\* controller button 14 / 15; 0 for every other step.
C32_Direction ==
    IF ev'.type = "keydown" /\ keys' = {"ArrowLeft"} THEN -1
    ELSE IF ev'.type = "keydown" /\ keys' = {"ArrowRight"} THEN 1
    ELSE IF ev'.type = "button" /\ calls'[1].arg = 14 THEN -1
    ELSE IF ev'.type = "button" /\ calls'[1].arg = 15 THEN 1
    ELSE 0

\* C32: selectedButton of a modal with n actions is 0 when the modal is
\* shown and always within 0..n-1; ArrowLeft / ArrowRight and controller
\* buttons 14 / 15 move the topmost modal's selectedButton by one, from 0
\* back to n-1 and from n-1 on to 0; no other step that keeps the modal on
\* the stack (Tab, a click that misses, focusNext, focusPrevious, ...)
\* changes it, and the modals below the topmost one are never changed.
C32_SelectedButton ==
    [][/\ \A h \in DOMAIN modals' :
             modals'[h].sel \in 0..(Len(Buttons(modals'[h])) - 1)
       /\ ev'.type = "showModal" => modals'[Len(modals')].sel = 0
       /\ (ModalOpen /\ ~C32_StackChanges) =>
             LET top == Len(modals)
                 n == Len(Buttons(modals[top]))
                 sel == modals[top].sel
             IN  /\ Len(modals') = top
                 /\ \A h \in 1..(top - 1) : modals'[h] = modals[h]
                 /\ modals'[top].cfg = modals[top].cfg
                 /\ modals'[top].sel =
                       CASE C32_Direction = -1 -> IF sel = 0 THEN n - 1 ELSE sel - 1
                         [] C32_Direction = 1 -> IF sel = n - 1 THEN 0 ELSE sel + 1
                         [] OTHER -> sel]_vars

\* ArrowLeft on the first of three actions has selected the last one.
C32_Witness ==
    /\ ev.type = "keydown" /\ keys = {"ArrowLeft"}
    /\ modals # <<>>
    /\ Len(Buttons(modals[Len(modals)])) = 3
    /\ modals[Len(modals)].sel = 2

\* The step calls no handler and no callback and leaves the controls, the
\* focus, the modals and the toasts as they were.
C33_NoOp ==
    /\ calls' = <<>>
    /\ UNCHANGED <<controls, focusIndex, modals, toasts, ctl, onEscape>>

\* C33: controller button 0 on a focused control without activate
\* (TextInput, Radio, Slider, Panel), controller buttons 14 / 15 on a
\* focused control with neither handleGamepadAxis nor handleGamepadLeft /
\* Right (Button, Toggle, TextInput, Panel), and a key-down on a focused
\* control without handleKeyDown (Panel) call nothing and change nothing
\* but the held-key map.
C33_MissingHandlerNoOp ==
    [][(HasFocus /\ modals = <<>>) =>
          /\ (handleGamepadButton(0)
                 /\ Kind(Focused) \in {"TextInput", "Radio", "Slider", "Panel"})
                => C33_NoOp /\ UNCHANGED keys
          /\ \A b \in {14, 15} :
                (handleGamepadButton(b)
                    /\ Kind(Focused) \in {"Button", "Toggle", "TextInput", "Panel"})
                   => C33_NoOp /\ UNCHANGED keys
          /\ \A key \in DispatchKeys :
                (handleKeyDown(key, FALSE) /\ Kind(Focused) = "Panel")
                   => C33_NoOp]_vars

\* Controller button 0 has just been dispatched with a typed-in TextInput
\* in focus: nothing was called.
C33_Witness ==
    /\ ev.type = "button"
    /\ controls = <<TextId>> /\ focusIndex = 0
    /\ ctl[TextId].value = <<"a">>
    /\ calls = <<>>

\* Call k of the step is a callback the application supplied (the default
\* OK action's callback is the library's own).
C34_UserCallback(k) ==
    \/ calls'[k].op \in {"control.callback", "onEscape"}
    \/ calls'[k].op = "modal.callback" /\ modals[calls'[k].tgt].cfg \in ThrowConfigs

\* What the handler did to control c before it called the callback.
C34_ControlChanged(c) ==
    CASE Kind(c) = "Button" -> ctl'[c].pressed /\ ctl'[c].pressedTime = 0
      [] Kind(c) = "Toggle" -> ctl'[c].value = ~ctl[c].value
      [] OTHER ->
           IF calls'[1].op = "control.handleClick"
           THEN ctl'[c].value # ctl[c].value
           ELSE IF calls'[1].op = "control.handleGamepadAxis"
           THEN ctl'[c].value = SliderStep(ctl[c], calls'[1].arg)
           ELSE ctl'[c].value
                   = SliderStep(ctl[c], IF keys' = {"ArrowLeft"} THEN -1 ELSE 1)

\* C34: when the application's callbacks throw, every dispatch that runs
\* one ends with the exception: nothing is done after it.  What the
\* handlers did before the callback stays: the focus moved by the click,
\* the Button's pressed flag, the Toggle's and the Slider's new value; a
\* modal whose action callback threw is not closed.
C34_ThrowPropagates ==
    [][(throws /\ ev'.type \in InputEvents) =>
          /\ (\E k \in DOMAIN calls' : C34_UserCallback(k)) <=> Threw(calls')
          /\ Threw(calls') =>
                LET c == calls'[1].tgt
                    n == Len(calls')
                IN  /\ calls'[n].op = "throw"
                    /\ \A k \in 1..(n - 1) :
                          calls'[k].op \notin {"throw", "closeModal"}
                    /\ \E k \in 1..(n - 1) : C34_UserCallback(k)
                    /\ calls'[1].op \in ModalEntryOps =>
                          /\ Len(modals') >= Len(modals)
                          /\ \A h \in DOMAIN modals : modals'[h] = modals[h]
                          /\ UNCHANGED <<focusIndex, ctl>>
                    /\ calls'[1].op \in ControlOps =>
                          /\ C34_ControlChanged(c)
                          /\ calls'[1].op = "control.handleClick" =>
                                HasFocus' /\ Focused' = c
                          /\ UNCHANGED modals]_vars

\* Enter on the Exit action of a Resume / Exit modal: the callback threw
\* and the modal is still open.
C34_Witness ==
    /\ throws
    /\ ev.type = "keydown" /\ keys = {"Enter"}
    /\ modals = <<[cfg |-> 2, sel |-> 1]>>
    /\ calls = <<Call("modal.handleKeyDown", 1, -1), Call("modal.callback", 1, 1),
                 Call("throw", 1, 1)>>

\* C35: pointer-move, mouse-down, mouse-up and key-up events call no handler
\* and no callback and leave the control list, the focus index, the modal
\* stack, the toast list and the controls' and modals' own state unchanged:
\* a move writes the pointer position only, mouse-down and mouse-up the
\* button mask only, key-up the held keys only.
C35_AmbientOnly ==
    [][ev'.type \in {"mousemove", "mousedown", "mouseup", "keyup"} =>
          /\ calls' = <<>>
          /\ UNCHANGED <<controls, focusIndex, modals, toasts, ctl, onEscape,
                         timers>>
          /\ ev'.type = "mousemove" =>
                mouse'.buttons = mouse.buttons /\ UNCHANGED keys
          /\ ev'.type \in {"mousedown", "mouseup"} =>
                mouse'.x = mouse.x /\ mouse'.y = mouse.y /\ UNCHANGED keys
          /\ ev'.type = "keyup" => UNCHANGED mouse]_vars

\* The pointer has moved, main button held, onto a control that is not the
\* focused one.
C35_Witness ==
    /\ ev.type = "mousemove"
    /\ mouse.buttons = 1
    /\ modals = <<>>
    /\ HitControl(controls, mouse.x, mouse.y) >= 0
    /\ HitControl(controls, mouse.x, mouse.y) # focusIndex

\* The step is a click on item i of Radio w: the point is on the Radio, in
\* the rows of item i.
C36_ClickOn(w, i) ==
    /\ ev'.type = "click"
    /\ calls' # <<>>
    /\ calls'[1] = Call("control.handleClick", w, -1)
    /\ ev'.y >= Rect(w).y + i * itemHeight
    /\ ev'.y < Rect(w).y + (i + 1) * itemHeight

\* C36: every move of a Radio by an arrow key or by d-pad left / right and
\* every click on one of its items calls the Radio's callback exactly once,
\* with the new selectedIndex and the item at that index.
C36_RadioCallback ==
    [][\A w \in RadioIds :
          (\/ C14_Moves(w, 1) \/ C14_Moves(w, -1)
           \/ \E i \in 0..(ItemCount(w) - 1) : C36_ClickOn(w, i)) =>
             /\ CallsOf(calls', "control.callback")
                   = <<[op |-> "control.callback", tgt |-> w,
                        arg |-> ctl'[w].selectedIndex,
                        value |-> RadioOptions[ctl'[w].selectedIndex + 1]]>>
             /\ \A i \in 0..(ItemCount(w) - 1) :
                   C36_ClickOn(w, i) => ctl'[w].selectedIndex = i]_vars

\* ArrowUp on a Radio of three options with option 0 selected: the callback
\* was called once, with 2 and 'Hard'.
C36_Witness ==
    \E w \in RadioIds :
       /\ ItemCount(w) = 3
       /\ Registered(w)
       /\ ev.type = "keydown" /\ keys = {"ArrowUp"}
       /\ ctl[w].selectedIndex = 2
       /\ calls = <<Call("control.handleKeyDown", w, -1),
                    [op |-> "control.callback", tgt |-> w, arg |-> 2,
                     value |-> "Hard"]>>

\* C37: when removeControl removes a registered control other than the
\* focused one, the control that had the focus has it afterwards, wherever
\* the removed control stood.
C37_FocusFollowsControl ==
    [][\A c \in ControlIds :
          (/\ ev'.type = "removeControl"
           /\ Registered(c) /\ IndexOfControl(controls', c) = -1
           /\ HasFocus /\ Focused # c) =>
             HasFocus' /\ Focused' = Focused]_vars

\* C38: at most one per-frame callback of the coordinator is armed at any
\* time, also after start() is called while the loop is running, and after
\* a stop() none is armed.
C38_SingleLoop ==
    /\ Cardinality(armed) <= 1
    /\ ev.type = "stop" => armed = {}

\* The callback run by the step has opened a modal.
C39_CallbackShows ==
    /\ ev'.type \in InputEvents
    /\ \E k \in DOMAIN calls' : calls'[k].op = "showModal"

\* C39: when the callback of a modal action, run by Enter / Space, a click
\* on the action, Escape or controller button 0 / 1, opens a new modal, the
\* close that follows removes the modal the action belongs to: afterwards
\* the modals below it are as before and the new modal is on top of them,
\* where the input goes.
C39_CloseRemovesOrigin ==
    [][(ModalOpen /\ C39_CallbackShows) =>
          LET top == Len(modals)
          IN  /\ modals' = SubSeq(modals, 1, top - 1) \o <<[cfg |-> 1, sel |-> 0]>>
              /\ CallsOf(calls', "modal.callback")
                    = <<Call("modal.callback", top, calls'[2].arg)>>
              /\ calls'[Len(calls')] = Call("closeModal", top, -1)]_vars

\* Escape on an Exit modal, shown over a Resume / Exit modal, whose Exit
\* callback opens another modal: the new modal has taken its place.
C39_Witness ==
    /\ ev.type = "keydown" /\ keys = {"Escape"}
    /\ modals = <<[cfg |-> 2, sel |-> 1], [cfg |-> 1, sel |-> 0]>>
    /\ calls = <<Call("modal.handleKeyDown", 2, -1), Call("modal.callback", 2, 0),
                 Call("showModal", 3, -1), Call("closeModal", 2, -1)>>

\* The sequence ts without toast id.
C40_Without(ts, id) == SelectSeq(ts, LAMBDA t : t # id)

\* The toast whose timer the step has run.
C40_Expired == CHOOSE id \in {t.id : t \in timers \ timers'} : TRUE

\* C40: the toast list is in creation order; a toast's expiry removes that
\* toast and no other, changes nothing when the toast is no longer in the
\* list, and keeps the order of the toasts that stay, so that the index of
\* a toast in the list never increases.
C40_ToastOrder ==
    [][/\ \A j, k \in DOMAIN toasts' : j < k => toasts'[j] < toasts'[k]
       /\ timers \ timers' # {} => toasts' = C40_Without(toasts, C40_Expired)
       /\ \A id \in {toasts'[k] : k \in DOMAIN toasts'} :
             /\ IndexOfToast(toasts, id) > 0 =>
                   IndexOfToast(toasts', id) <= IndexOfToast(toasts, id)
             /\ IndexOfToast(toasts, id) = 0 =>
                   ev'.type = "showToast" /\ toasts'[Len(toasts')] = id]_vars

\* The second of three toasts has expired before the first and the third.
C40_Witness ==
    /\ ev.type = "timeout"
    /\ toasts = <<1, 3>>
    /\ \E t \in timers : t.id = 1

====
